---- MODULE Spec2Model ----
(***************************************************************************)
(* Model of the audio-to-inference pipeline of the Transcription app:      *)
(*   - the stream chunker of AudioManager (src/src/managers/               *)
(*     AudioManager.js): rolling buffer, overlapping chunks, final flush;  *)
(*   - the inference coordinator TranscriptionManager                      *)
(*     (src/src/managers/TranscriptionManager.js): correlation ids,        *)
(*     pending table, 60 s timeouts, worker messages.                      *)
(*                                                                         *)
(* Times (chunkSize, overlapSize) are kept in milliseconds so that the     *)
(* code's arithmetic on seconds stays exact integer arithmetic:            *)
(*   Math.floor(seconds * sampleRate) = (ms * sampleRate) \div 1000.       *)
(* A sample is modelled by its position in the pushed stream, so that two  *)
(* chunks hold "the same samples" exactly when they hold the same tags.    *)
(***************************************************************************)
EXTENDS Integers, Sequences, FiniteSets, TLC

(***************************************************************************)
(* Bounds of the model.                                                    *)
(***************************************************************************)
\* Samples per second of the model's chunker.  The code's sampleRate field
\* is 16000 (AudioManager.js:41); the model runs the same arithmetic at a
\* rate at which a chunk is a handful of samples.
SampleRate == 2
\* Samples pushed between two resets of the window, in a stream under one
\* configuration (StreamSpec) and under all operations (Spec).
MaxSamples == 12
MaxWindow == 5
\* Longest frame handed to processAudioData.
MaxFrame == 3
\* Largest value chunkCounter may reach by pushing frames, in StreamSpec
\* and in Spec.
MaxStreamCounter == 6
MaxCounter == 3
\* Iterations observed of a while loop that cannot terminate.
MaxLoop == 2
\* Most chunk callbacks registered at a time, and the samples pushed
\* between two resets of the window while callbacks are registered.
MaxCallbacks == 2
MaxCallbackSamples == 9
\* Calls of stopRecording in one behaviour.
MaxStops == 3

\* "config.x === undefined" in configureRealtimeProcessing.
Undefined == -1
\* Values offered as config.chunkSize / config.overlapSize (ms) and
\* config.bufferSize.
ChunkSizeInputs == {Undefined, 100, 2500}
OverlapSizeInputs == {Undefined, 0, 500, 5000}
BufferSizeInputs == {Undefined, 1000}

\* Requests submitted in one behaviour, and workers created in it.
MaxRequests == 2
MaxWorkers == 2
\* Error messages the worker answers with, and the loading progress it
\* reports.
ErrorMessages == {"e1"}
ProgressValues == {50}

\* Per-file progress reports handled by the worker in one behaviour, and
\* calls of initializeModel in it.
MaxReports == 3
MaxPhases == 2
\* The files the reports are about (progress.file || 'unknown') and the
\* rounded progress they report (Math.round(progress.progress || 0)).
ReportFiles == {"model.bin", "unknown"}
RawProgress == {0, 100}

\* Longest segment list of one transcription.
MaxSegments == 3
\* Token ids of a token event or of a finished segment, and the values of
\* options.isPartial a request carries.
TokenIds == {<<>>, <<1>>, <<1, 2>>}
IsPartialOptions == {"undefined", "false", "true"}
\* 0x7fff, the factor of convertToWAV.
MaxInt16 == 32767
\* The bytes of a file that getWAVDuration reads.
HeaderSlice == 1024
MaxSentences == 3
\* Messages the worker receives in one behaviour, messages it has posted
\* when a partial transcription is still posted, and the segments of the
\* accumulator of a call.
MaxHandlers == 3
MaxOutbox == 3
MaxRunSegments == 1
\* 16000 * 0.1, the samples of the shortest array handed to the model.
MinSamples == 1600
MaxChunks == 3
\* Longest sample buffer handed to convertToWAV.
MaxWavSamples == 3
\* Longest sample buffer handed to a resampler, and the longest channel and
\* the largest number of channels of an AudioBuffer reduced to mono.
MaxAudioLen == 3
MaxChannelLen == 2
MaxAudioChannels == 3

VARIABLES
  \* ---- AudioManager (real-time chunker) ----
  audioBuffer,          \* this.audioBuffer: the rolling window
  isRealtimeProcessing, \* this.isRealtimeProcessing
  chunkSize,            \* this.chunkSize, in ms
  overlapSize,          \* this.overlapSize, in ms
  bufferSize,           \* this.bufferSize
  chunkCounter,         \* this.chunkCounter
  initialized,          \* this.audioContext and this.processor are set
  looping,              \* control is inside a while loop that cannot end
  chunkCallbacks,       \* this.chunkCallbacks, in registration order
  \* ---- observation of the chunker ----
  emitted,              \* chunkData objects handed to the callbacks since
                        \* the window was last reset or reconfigured
  nextSample,           \* samples pushed since the window was last emptied
                        \* by a reset or a flush: the tag of the next one
  clean,                \* the window was empty when emitted was cleared
  delivered,            \* for each chunk of emitted: its id, the callbacks
                        \* registered when it was built and the callbacks
                        \* that were called with it, in order
  idHistory,            \* the ids of the last two chunks ever emitted
                        \* (Undefined for none), whether chunkCounter was
                        \* reset between the two, and since the last one
  lastOp,               \* the chunker operation that returned last: "push",
                        \* "stop", "stop2" (a stop right after a stop),
                        \* "cleanup", or "other"; "pushing" while a call of
                        \* processAudioData is in a loop that cannot end
  \* ---- TranscriptionManager (inference coordinator) ----
  worker,               \* this.worker is not null
  isModelLoaded,        \* this.isModelLoaded
  loadingProgress,      \* this.loadingProgress (Undefined for undefined)
  messageId,            \* this.messageId
  pendingMessages,      \* this.pendingMessages: id -> the request whose
                        \* resolve/reject the entry holds
  onProgressCallback,   \* this.onProgressCallback is set
  timers,               \* ids whose setTimeout callback has not run yet
  \* ---- observation of the coordinator ----
  requests,             \* the calls of sendWorkerMessage, in order: the
                        \* id and type of each and the worker it went to
  posted,               \* ids handed to worker.postMessage, in order
  received,             \* requests that were posted to the living worker
  workers,              \* number of workers created so far
  calls,                \* request -> the calls of its resolve and reject
  closed,               \* ids for which a response was delivered, the
                        \* timer ran, or destroy() was called
  lastEvent,            \* the last event the coordinator handled
  \* ---- WhisperWorker: loading progress ----
  fileProgress,         \* this.fileProgress: file -> rounded progress
  progressHistory,      \* this.progressHistory
  workerProgress,       \* this.loadingProgress of the worker
  channel,              \* progress messages posted and not yet handled
  \* ---- observation of the loading progress ----
  phase,                \* calls of initializeModel so far
  reports,              \* calls of progressCallback so far
  postedProgress,       \* the progress messages posted: phase and value
  forwardedProgress,    \* the calls of the progress callback: the index
                        \* in postedProgress of the message and the value
  \* ---- WhisperWorker.processAudioChunk ----
  transcribing,         \* a call of processAudioChunk awaits the model
  chunks_to_process,    \* its accumulator: segments {tokens, finalised}
  options,              \* options.isPartial of the call
  \* ---- observation of processAudioChunk ----
  lastStep,             \* the last step of the call: what happened, the
                        \* is_last flag of a boundary, the isPartial field
                        \* of what was posted or returned
  \* ---- WhisperWorker: repetition suppression ----
  textCall,             \* the function that was called: "none",
                        \* "removeRepetitiveText" or "deduplicateChunks"
  textIn,               \* the text given to removeRepetitiveText
  textOut,              \* the text it returned
  chunksIn,             \* the chunks given to deduplicateChunks
  chunksOut,            \* the chunks it returned
  \* ---- container codec: convertToWAV and getWAVDuration ----
  wavCall,              \* the call that returned last: "none",
                        \* "convertToWAV", "getWAVDuration", or "file"
                        \* when a file was chosen
  wavInput,             \* the arguments of convertToWAV: samples (in
                        \* thousandths), sampleRate and channels
  wavFile,              \* the bytes of the container, written by
                        \* convertToWAV or handed in as a file
  wavDuration,          \* how the promise of getWAVDuration was settled
  \* ---- AudioUtils, AudioFileReader (resampling, mono reduction) ----
  audioCall,            \* the function called, "none" before the call
  audioInput,           \* the AudioBuffer and the target rate of the call
  audioResult,          \* what the call returned or threw
  \* ---- AudioManager (recording control) ----
  isRecording,          \* this.isRecording
  recordingStartTime,   \* this.recordingStartTime is not null
  mediaRecorder,        \* this.mediaRecorder: "null", or the state of the
                        \* recorder, "recording" or "inactive"
  onstop,               \* this.mediaRecorder.onstop: 0 for the handler set
                        \* by startRecording, k for the one set by the
                        \* k-th call of stopRecording
  stopQueued,           \* a stop event of the recorder waits to be handled
  stopTimers,           \* calls of stopRecording whose setTimeout waits
  stopPromises,         \* for each call of stopRecording: how its promise
                        \* was settled and the fields at that moment
  lastStart,            \* how the last call of startRecording ended
  \* ---- whisper-worker: the message protocol ----
  whisper,              \* this.model is set, this.isInitialized
  handlers,             \* for each message received, in order: the
                        \* request, where its run of self.onmessage
                        \* stands ("loading", "running" or "done"), the
                        \* length of the array handed to the model and the
                        \* accumulator of its call of processAudioChunk
  outbox                \* the messages posted, in order; from is the
                        \* handler that posted the message

chunkerVars == <<audioBuffer, isRealtimeProcessing, chunkSize, overlapSize,
                 bufferSize, chunkCounter, initialized, looping,
                 chunkCallbacks>>
chunkerObs == <<emitted, nextSample, clean, lastOp, delivered, idHistory>>

coordVars == <<worker, isModelLoaded, loadingProgress, messageId,
               pendingMessages, onProgressCallback, timers>>
coordObs == <<requests, posted, received, workers, calls, closed, lastEvent>>

progressVars == <<fileProgress, progressHistory, workerProgress, channel>>
progressObs == <<phase, reports, postedProgress, forwardedProgress>>

transcribeVars == <<transcribing, chunks_to_process, options>>
transcribeObs == <<lastStep>>

textVars == <<textCall, textIn, textOut, chunksIn, chunksOut>>

wavVars == <<wavCall, wavInput, wavFile, wavDuration>>

audioVars == <<audioCall, audioInput, audioResult>>

recorderVars == <<isRecording, recordingStartTime, mediaRecorder, onstop,
                  stopQueued, stopTimers, stopPromises, lastStart>>

protocolVars == <<whisper, handlers, outbox>>

vars == <<chunkerVars, chunkerObs, coordVars, coordObs,
          progressVars, progressObs, transcribeVars, transcribeObs,
          textVars, wavVars, audioVars, recorderVars, protocolVars>>

(***************************************************************************)
(* Helpers                                                                 *)
(***************************************************************************)
Min(a, b) == IF a <= b THEN a ELSE b
Max(a, b) == IF a >= b THEN a ELSE b

\* Array.prototype.slice(0, n) on an array of length Len(s), n >= 0.
Slice(s, n) == SubSeq(s, 1, Min(n, Len(s)))

\* Array.prototype.splice(0, n): removes the first n elements; a negative or
\* zero n removes nothing, an n beyond the length removes everything.
Splice(s, n) ==
  IF n <= 0 THEN s
  ELSE IF n >= Len(s) THEN <<>>
  ELSE SubSeq(s, n + 1, Len(s))

\* The samples tagged from, from+1, ..., from+n-1.
Samples(from, n) == [i \in 1..n |-> from + i - 1]

(***************************************************************************)
(* AudioManager: chunk arithmetic                                          *)
(***************************************************************************)
\* const chunkSamples = Math.floor(this.chunkSize * this.sampleRate)
ChunkSamples(cs) == (cs * SampleRate) \div 1000
\* const overlapSamples = Math.floor(this.overlapSize * this.sampleRate)
OverlapSamples(os) == (os * SampleRate) \div 1000
\* Mutant: the whole chunk is removed from the window, overlap included.
StepSizeNoOverlap(cs, os) == ChunkSamples(cs)
\* const stepSize = chunkSamples - overlapSamples
StepSize(cs, os) == ChunkSamples(cs) - OverlapSamples(os)

\* The chunkData object built in processAudioData (isFinal is absent there)
\* and in processRemainingBuffer (isFinal: true).
ChunkData(id, data, final) == [id |-> id, audioData |-> data, isFinal |-> final]

\* Mutant: the loop guard with > for >=.
HasChunkStrict(buf, cs) == Len(buf) > ChunkSamples(cs)
\* while (this.audioBuffer.length >= chunkSamples)
HasChunk(buf, cs) == Len(buf) >= ChunkSamples(cs)

\* Mutant: an if for the while, at most one chunk leaves per frame.
ChunkLoopOnce(st, cs, os) ==
  IF HasChunk(st.buf, cs)
  THEN [buf |-> Splice(st.buf, StepSize(cs, os)),
        counter |-> st.counter + 1,
        out |-> Append(st.out,
                  ChunkData(st.counter, Slice(st.buf, ChunkSamples(cs)), FALSE))]
  ELSE st

\* The while loop of processAudioData, run to completion.  st is
\* [buf, counter, out]; the loop is only run here when it terminates.
RECURSIVE ChunkLoop(_, _, _)
ChunkLoop(st, cs, os) ==
  IF HasChunk(st.buf, cs)
  THEN ChunkLoop([buf |-> Splice(st.buf, StepSize(cs, os)),
                  counter |-> st.counter + 1,
                  out |-> Append(st.out,
                            ChunkData(st.counter,
                                      Slice(st.buf, ChunkSamples(cs)),
                                      FALSE))],
                 cs, os)
  ELSE st

\* The loop of processAudioData never ends: the guard holds and an
\* iteration removes nothing from the window.
LoopDiverges(buf, cs, os) ==
  HasChunk(buf, cs) /\ StepSize(cs, os) <= 0

\* getBufferStatus().readyForChunk
ReadyForChunk == Len(audioBuffer) >= ChunkSamples(chunkSize)

\* The last flush: stopRealtimeProcessing or cleanup returned last.
Flushed == lastOp \in {"stop", "stop2", "cleanup"}

(***************************************************************************)
(* AudioManager: chunk callbacks                                           *)
(***************************************************************************)
\* The values handed to initRealtimeProcessing and addChunkCallback: two
\* functions, one of which throws on every call, and a value that is no
\* function.
CallbackFunctions == {"f", "thrower"}
NotAFunction == "undefined"
Throws(callback) == callback = "thrower"

RECURSIVE ForEachUncaught(_, _)
\* Mutant: no try around the call, the first exception ends the forEach.
ForEachUncaught(callbacks, k) ==
  IF k > Len(callbacks) THEN <<>>
  ELSE IF Throws(callbacks[k]) THEN <<callbacks[k]>>
  ELSE <<callbacks[k]>> \o ForEachUncaught(callbacks, k + 1)
RECURSIVE ForEach(_, _)
\* this.chunkCallbacks.forEach(callback => { try { callback(chunkData) }
\* catch (error) { ... } }) from entry k on: the callbacks called, in order.
\* An exception is caught inside the iteration, which goes on.
ForEach(callbacks, k) ==
  IF k > Len(callbacks) THEN <<>>
  ELSE <<callbacks[k]>> \o ForEach(callbacks, k + 1)

\* What is observed of one chunkData handed to the callbacks.
Delivery(chunk, callbacks) ==
  [id |-> chunk.id, registered |-> callbacks, called |-> ForEach(callbacks, 1)]
\* The observations after the chunks that out holds beyond before were
\* handed to the callbacks.
CallCallbacks(before, deliveredBefore, out) ==
  deliveredBefore
    \o [k \in 1..(Len(out) - Len(before)) |->
          Delivery(out[Len(before) + k], chunkCallbacks)]

\* The history of ids after the chunk with this id was emitted, and after
\* the chunks that out holds beyond before were.
NoteId(history, id) ==
  [prev |-> history.last, last |-> id, resetBetween |-> history.resetSince,
   resetSince |-> FALSE]
RECURSIVE NoteChunks(_, _, _)
NoteChunks(history, before, out) ==
  IF Len(out) <= Len(before) THEN history
  ELSE NoteId(NoteChunks(history, before, SubSeq(out, 1, Len(out) - 1)),
              out[Len(out)].id)
\* The history of ids after this.chunkCounter = 0.
NoteReset(history) == [history EXCEPT !.resetSince = TRUE]

\* Array.prototype.indexOf: the first position of callback, 0 for none.
IndexOf(callbacks, callback) ==
  IF \E k \in 1..Len(callbacks) : callbacks[k] = callback
  THEN CHOOSE k \in 1..Len(callbacks) :
         /\ callbacks[k] = callback
         /\ \A j \in 1..(k - 1) : callbacks[j] # callback
  ELSE 0

(***************************************************************************)
(* AudioManager: operations                                                *)
(***************************************************************************)
ChunkerInit ==
  /\ audioBuffer = <<>>
  /\ isRealtimeProcessing = FALSE
  /\ chunkSize = 2500
  /\ overlapSize = 500
  /\ bufferSize = 4096
  /\ chunkCounter = 0
  /\ initialized = FALSE
  /\ looping = FALSE
  /\ chunkCallbacks = <<>>
  /\ delivered = <<>>
  /\ idHistory = [prev |-> Undefined, last |-> Undefined,
                  resetBetween |-> FALSE, resetSince |-> FALSE]
  /\ emitted = <<>>
  /\ nextSample = 0
  /\ clean = TRUE
  /\ lastOp = "other"

\* Observation after an operation that emits nothing and leaves the window
\* alone: what a finished flush left behind is forgotten.
ObserveOther ==
  /\ emitted' = IF Flushed THEN <<>> ELSE emitted
  /\ delivered' = IF Flushed THEN <<>> ELSE delivered
  /\ nextSample' = IF Flushed THEN 0 ELSE nextSample
  /\ clean' = IF Flushed THEN TRUE ELSE clean
  /\ lastOp' = "other"

\* Observation after the window was reset to empty.
ObserveReset ==
  /\ emitted' = <<>>
  /\ delivered' = <<>>
  /\ nextSample' = 0
  /\ clean' = TRUE
  /\ lastOp' = "other"

\* initRealtimeProcessing(onChunkReady), the microphone and the audio context
\* being available: creates the context and the processor and resets the
\* window and the counter.  (When the microphone is refused the method
\* throws before it touches the chunker.)  The callbacks registered before
\* are dropped; onChunkReady is registered when it is a function.
InitRealtimeProcessingWith(onChunkReady) ==
  /\ ~looping
  /\ initialized' = TRUE
  /\ audioBuffer' = <<>>
  /\ chunkCallbacks' = IF onChunkReady \in CallbackFunctions
                        THEN <<onChunkReady>> ELSE <<>>
  /\ chunkCounter' = 0
  /\ idHistory' = NoteReset(idHistory)
  /\ ObserveReset
  /\ UNCHANGED <<isRealtimeProcessing, chunkSize, overlapSize, bufferSize,
                 looping>>
\* initRealtimeProcessing() without an argument.
InitRealtimeProcessing == InitRealtimeProcessingWith(NotAFunction)

\* addChunkCallback(callback)
AddChunkCallback(callback) ==
  /\ ~looping
  /\ chunkCallbacks' = IF callback \in CallbackFunctions
                        THEN Append(chunkCallbacks, callback)
                        ELSE chunkCallbacks
  /\ ObserveOther
  /\ UNCHANGED <<audioBuffer, isRealtimeProcessing, chunkSize, overlapSize,
                 bufferSize, chunkCounter, initialized, looping, idHistory>>

\* removeChunkCallback(callback): the first registration of it is removed.
RemoveChunkCallback(callback) ==
  /\ ~looping
  /\ LET index == IndexOf(chunkCallbacks, callback)
     IN chunkCallbacks' =
          IF index > 0
          THEN SubSeq(chunkCallbacks, 1, index - 1)
                 \o SubSeq(chunkCallbacks, index + 1, Len(chunkCallbacks))
          ELSE chunkCallbacks
  /\ ObserveOther
  /\ UNCHANGED <<audioBuffer, isRealtimeProcessing, chunkSize, overlapSize,
                 bufferSize, chunkCounter, initialized, looping, idHistory>>

\* startRealtimeProcessing(): throws when not initialized, else raises the
\* flag and resets the window and the counter.
StartRealtimeProcessing ==
  /\ ~looping
  /\ IF ~initialized
     THEN /\ ObserveOther
          /\ UNCHANGED <<chunkerVars, idHistory>>
     ELSE /\ isRealtimeProcessing' = TRUE
          /\ audioBuffer' = <<>>
          /\ chunkCounter' = 0
          /\ idHistory' = NoteReset(idHistory)
          /\ ObserveReset
          /\ UNCHANGED <<chunkSize, overlapSize, bufferSize, initialized,
                         looping, chunkCallbacks>>

\* Mutant: the final chunk is emitted and the window is not cleared.
ProcessRemainingBufferKeep(st) ==
  IF Len(st.buf) = 0 THEN st
  ELSE [buf |-> st.buf,
        counter |-> st.counter + 1,
        out |-> Append(st.out, ChunkData(st.counter, st.buf, TRUE))]

\* Mutant: the final chunk takes this.chunkCounter without incrementing it.
ProcessRemainingBufferSameId(st) ==
  IF Len(st.buf) = 0 THEN st
  ELSE [buf |-> <<>>,
        counter |-> st.counter,
        out |-> Append(st.out, ChunkData(st.counter, st.buf, TRUE))]

\* processRemainingBuffer(): st is [buf, counter, out].
ProcessRemainingBuffer(st) ==
  IF Len(st.buf) = 0 THEN st
  ELSE [buf |-> <<>>,
        counter |-> st.counter + 1,
        out |-> Append(st.out, ChunkData(st.counter, st.buf, TRUE))]

\* The body of stopRealtimeProcessing() after the flag is lowered.
StopFlush(st) ==
  IF Len(st.buf) > 0 THEN ProcessRemainingBuffer(st) ELSE st

\* stopRealtimeProcessing()
StopRealtimeProcessing ==
  /\ ~looping
  /\ LET st == StopFlush([buf |-> audioBuffer, counter |-> chunkCounter,
                          out |-> emitted])
     IN /\ isRealtimeProcessing' = FALSE
        /\ audioBuffer' = st.buf
        /\ chunkCounter' = st.counter
        /\ emitted' = st.out
        /\ delivered' = CallCallbacks(emitted, delivered, st.out)
        /\ idHistory' = NoteChunks(idHistory, emitted, st.out)
  /\ lastOp' = IF lastOp \in {"stop", "stop2"} THEN "stop2" ELSE "stop"
  /\ UNCHANGED <<chunkSize, overlapSize, bufferSize, initialized, looping,
                 chunkCallbacks, nextSample, clean>>

\* Samples of the current stream: a frame pushed after a flush opens a new
\* stream in the then empty window.
StreamLength == IF Flushed THEN 0 ELSE nextSample

\* processAudioData(inputBuffer) with a frame of n samples.
ProcessAudioData(n) ==
  LET buf0 == audioBuffer \o Samples(StreamLength, n)
      out0 == IF Flushed THEN <<>> ELSE emitted
      delivered0 == IF Flushed THEN <<>> ELSE delivered
  IN /\ ~looping
     /\ IF LoopDiverges(buf0, chunkSize, overlapSize)
        THEN /\ audioBuffer' = buf0
             /\ emitted' = out0
             /\ delivered' = delivered0
             /\ UNCHANGED idHistory
             /\ looping' = TRUE
             /\ lastOp' = "pushing"
             /\ UNCHANGED chunkCounter
        ELSE LET st == ChunkLoop([buf |-> buf0, counter |-> chunkCounter,
                                  out |-> out0], chunkSize, overlapSize)
             IN /\ audioBuffer' = st.buf
                /\ chunkCounter' = st.counter
                /\ emitted' = st.out
                /\ delivered' = CallCallbacks(out0, delivered0, st.out)
                /\ idHistory' = NoteChunks(idHistory, out0, st.out)
                /\ lastOp' = "push"
                /\ UNCHANGED looping
     /\ nextSample' = StreamLength + n
     /\ clean' = IF Flushed THEN TRUE ELSE clean
     /\ UNCHANGED <<isRealtimeProcessing, chunkSize, overlapSize, bufferSize,
                    initialized, chunkCallbacks>>

\* A frame of n samples, within the bounds of the model.
PushWithin(n, maxSamples, maxCounter) ==
  /\ StreamLength + n <= maxSamples
  /\ ProcessAudioData(n)
  /\ chunkCounter' <= maxCounter

\* One iteration of the while loop of processAudioData when the loop cannot
\* end: the same chunk is emitted again and nothing leaves the window.
LoopIteration ==
  /\ looping
  /\ Len(emitted) < MaxLoop
  /\ emitted' = Append(emitted,
                  ChunkData(chunkCounter,
                            Slice(audioBuffer, ChunkSamples(chunkSize)), FALSE))
  /\ delivered' = CallCallbacks(emitted, delivered, emitted')
  /\ idHistory' = NoteId(idHistory, chunkCounter)
  /\ chunkCounter' = chunkCounter + 1
  /\ audioBuffer' = Splice(audioBuffer, StepSize(chunkSize, overlapSize))
  /\ UNCHANGED <<isRealtimeProcessing, chunkSize, overlapSize, bufferSize,
                 initialized, looping, chunkCallbacks, nextSample, clean,
                 lastOp>>

\* this.chunkSize = Math.max(0.5, Math.min(10, config.chunkSize))
ClampChunkSize(x) == Max(500, Min(10000, x))
\* this.overlapSize = Math.max(0, Math.min(this.chunkSize * 0.8, config.overlapSize))
ClampOverlapSize(cs, x) == Max(0, Min((cs * 4) \div 5, x))
\* validSizes.find(size => size >= config.bufferSize) || 4096
ValidSizes == <<256, 512, 1024, 2048, 4096, 8192, 16384>>
FindBufferSize(x) ==
  LET hits == {i \in 1..Len(ValidSizes) : ValidSizes[i] >= x}
  IN IF hits = {} THEN 4096
     ELSE ValidSizes[CHOOSE i \in hits : \A j \in hits : i <= j]

\* The body of configureRealtimeProcessing(config) behind its guard.
ApplyConfiguration(cfg) ==
  LET cs == IF cfg.chunkSize # Undefined
            THEN ClampChunkSize(cfg.chunkSize) ELSE chunkSize
      os == IF cfg.overlapSize # Undefined
            THEN ClampOverlapSize(cs, cfg.overlapSize) ELSE overlapSize
      changed == cs # chunkSize \/ os # overlapSize
  IN /\ chunkSize' = cs
     /\ overlapSize' = os
     /\ bufferSize' = IF cfg.bufferSize # Undefined
                      THEN FindBufferSize(cfg.bufferSize) ELSE bufferSize
     /\ UNCHANGED <<isRealtimeProcessing, chunkCounter, initialized,
                    looping, chunkCallbacks, idHistory>>
     \* Observation: a changed configuration opens a new stream, whose
     \* first samples are the ones left in the window; they are
     \* re-tagged 0, 1, ... in place (same number, same order).
     /\ IF changed
        THEN /\ emitted' = <<>>
             /\ delivered' = <<>>
             /\ clean' = (audioBuffer = <<>>)
             /\ nextSample' = Len(audioBuffer)
             /\ audioBuffer' = Samples(0, Len(audioBuffer))
             /\ lastOp' = "other"
        ELSE /\ ObserveOther
             /\ UNCHANGED audioBuffer

\* Mutant: the configuration is applied while processing is active too.
ConfigureWhileActive(cfg) == ~looping /\ ApplyConfiguration(cfg)
\* configureRealtimeProcessing(config)
ConfigureRealtimeProcessing(cfg) ==
  /\ ~looping
  /\ IF isRealtimeProcessing
     THEN /\ ObserveOther
          /\ UNCHANGED <<chunkerVars, idHistory>>
     ELSE ApplyConfiguration(cfg)

\* cleanup(): stops (and so flushes), releases the audio graph and clears
\* the real-time data.
Cleanup ==
  /\ ~looping
  /\ LET st == StopFlush([buf |-> audioBuffer, counter |-> chunkCounter,
                          out |-> emitted])
     IN /\ emitted' = st.out
        /\ delivered' = CallCallbacks(emitted, delivered, st.out)
        /\ idHistory' = NoteReset(NoteChunks(idHistory, emitted, st.out))
  /\ isRealtimeProcessing' = FALSE
  /\ initialized' = FALSE
  /\ audioBuffer' = <<>>
  /\ chunkCallbacks' = <<>>
  /\ chunkCounter' = 0
  /\ lastOp' = "cleanup"
  /\ UNCHANGED <<chunkSize, overlapSize, bufferSize, looping, nextSample,
                 clean>>

Configs ==
  [chunkSize : ChunkSizeInputs, overlapSize : OverlapSizeInputs,
   bufferSize : BufferSizeInputs]

\* Every operation of the chunker, in any order.
\* No sample was pushed yet and nothing was emitted.
Fresh == nextSample = 0 /\ emitted = <<>> /\ lastOp = "other"

(***************************************************************************)
(* TranscriptionManager: messages, pending table, promises                 *)
(***************************************************************************)
\* A message of the worker.  id is 0 when the message carries none; data is
\* the result of a success, named by the request the worker computed it
\* for (0 for none); progress is data.progress of a progress message
\* (Undefined when data has no such field), owner is the request during
\* whose processing the worker posted a progress message.
Message(id, type, data, progress, error, owner) ==
  [id |-> id, type |-> type, data |-> data, progress |-> progress,
   error |-> error, owner |-> owner]

NoMessage == Message(0, "none", 0, Undefined, "none", 0)

\* What the observation records of an event: the operation ("timeout",
\* "message", "refused" for a call turned down because the model is not
\* loaded, "destroy", or "other"), the request whose continuation it looked up (0 for
\* none), the message handled, and whether the progress callback was
\* invoked.
Event(op, req, msg, forwarded) ==
  [op |-> op, req |-> req, msg |-> msg, forwarded |-> forwarded]

\* Map.prototype.has / get / set / delete on this.pendingMessages; get
\* answers 0 for undefined.
MapHas(map, id) == id \in DOMAIN map

\* Mutant: get answers the oldest entry, whatever the id.
MapGetOldest(map, id) ==
  IF DOMAIN map = {} THEN 0
  ELSE map[CHOOSE k \in DOMAIN map : \A j \in DOMAIN map : k <= j]
MapGet(map, id) == IF id \in DOMAIN map THEN map[id] ELSE 0
MapSet(map, id, v) ==
  [k \in (DOMAIN map) \cup {id} |-> IF k = id THEN v ELSE map[k]]
MapDelete(map, id) == [k \in (DOMAIN map) \ {id} |-> map[k]]

\* A call of a promise's resolve or reject.
Resolved(data) == [kind |-> "resolve", data |-> data, message |-> "none"]
Rejected(message) == [kind |-> "reject", data |-> 0, message |-> message]

\* The promise of request r is settled by its first call only; the
\* observation keeps every call.
Settle(r, call) == [calls EXCEPT ![r] = Append(@, call)]

\* loadWhisperModel awaits the promise of its 'init' request: when the
\* promise is settled (by its first call), the model is marked loaded or
\* not loaded.
\* Mutant: the promise of any request marks the model.
ModelLoadedAfterAny(type, first, call, cur) ==
  IF first THEN call.kind = "resolve" ELSE cur
ModelLoadedAfter(type, first, call, cur) ==
  IF type = "init" /\ first THEN call.kind = "resolve" ELSE cur

\* What loadWhisperModel gives its caller once the promise of its request
\* was settled by call: the result, or the error
\* `Model loading failed: ${error.message}`.
LoadWhisperModelOutcome(call) ==
  IF call.kind = "resolve"
  THEN [kind |-> "resolve", prefix |-> "none", cause |-> "none"]
  ELSE [kind |-> "reject", prefix |-> "Model loading failed: ",
        cause |-> call.message]

ProgressAfter(type, first, call, cur) ==
  IF type = "init" /\ first /\ call.kind = "resolve" THEN 100 ELSE cur

\* The ids given out so far.
IssuedIds == {posted[i] : i \in 1..Len(posted)}

CoordInit ==
  /\ worker = FALSE
  /\ isModelLoaded = FALSE
  /\ loadingProgress = 0
  /\ messageId = 0
  /\ pendingMessages = <<>>
  /\ onProgressCallback = FALSE
  /\ timers = {}
  /\ requests = <<>>
  /\ posted = <<>>
  /\ received = {}
  /\ workers = 0
  /\ calls = [r \in 1..MaxRequests |-> <<>>]
  /\ closed = {}
  /\ lastEvent = Event("other", 0, NoMessage, FALSE)

(***************************************************************************)
(* TranscriptionManager: operations                                        *)
(***************************************************************************)
\* initializeWorker(), called while the manager has no worker.
InitializeWorker ==
  /\ ~worker
  /\ workers < MaxWorkers
  /\ worker' = TRUE
  /\ workers' = workers + 1
  /\ lastEvent' = Event("other", 0, NoMessage, FALSE)
  /\ UNCHANGED <<isModelLoaded, loadingProgress, messageId, pendingMessages,
                 onProgressCallback, timers, requests, posted, received,
                 calls, closed>>

\* sendWorkerMessage(type), called with loadingProgress as its caller left
\* it.  Without a worker the promise is rejected at once.
SendWorkerMessage(type, progress) ==
  /\ Len(requests) < MaxRequests
  /\ LET r == Len(requests) + 1
         id == messageId + 1
     IN IF ~worker
        THEN LET call == Rejected("Worker not initialized")
             IN /\ requests' = Append(requests,
                                 [id |-> 0, type |-> type, worker |-> 0])
                /\ calls' = Settle(r, call)
                /\ isModelLoaded' =
                     ModelLoadedAfter(type, TRUE, call, isModelLoaded)
                /\ loadingProgress' = progress
                /\ UNCHANGED <<messageId, pendingMessages, timers, posted,
                               received>>
        ELSE /\ messageId' = id
             /\ pendingMessages' = MapSet(pendingMessages, id, r)
             /\ posted' = Append(posted, id)
             /\ timers' = timers \cup {r}
             /\ requests' = Append(requests,
                              [id |-> id, type |-> type, worker |-> workers])
             /\ received' = received \cup {r}
             /\ loadingProgress' = progress
             /\ UNCHANGED <<calls, isModelLoaded>>
  /\ lastEvent' = Event("other", 0, NoMessage, FALSE)
  /\ UNCHANGED <<worker, onProgressCallback, workers, closed>>

LoadWhisperModel == SendWorkerMessage("init", 0)

\* Mutant: the refusal comes after a correlation id was taken.
ModelNotLoadedAfterId ==
  /\ messageId' = messageId + 1
  /\ lastEvent' = Event("refused", 0, NoMessage, FALSE)
  /\ UNCHANGED <<worker, isModelLoaded, loadingProgress, pendingMessages,
                 onProgressCallback, timers, requests, posted, received,
                 workers, calls, closed>>
\* throw new Error('Model not loaded. Call loadWhisperModel() first.'), the
\* first statement of transcribeAudio and of detectLanguage.
ModelNotLoaded ==
  /\ lastEvent' = Event("refused", 0, NoMessage, FALSE)
  /\ UNCHANGED <<coordVars, requests, posted, received, workers, calls,
                 closed>>

\* transcribeAudio(audioData, language)
TranscribeAudio ==
  IF ~isModelLoaded
  THEN ModelNotLoaded
  ELSE SendWorkerMessage("transcribe", loadingProgress)

\* detectLanguage(audioData): the same guard and the same request; what the
\* caller gets back differs, the coordinator does not.
DetectLanguage ==
  IF ~isModelLoaded
  THEN ModelNotLoaded
  ELSE SendWorkerMessage("transcribe", loadingProgress)

\* A caller of sendWorkerMessage other than the two above.
SendStatus == SendWorkerMessage("status", loadingProgress)

\* The callback of the request's setTimeout runs.  The timers are all set
\* for 60000 ms, so they run in the order they were set.
\* Mutant: the callback rejects and leaves the entry in the table.
TimeoutKeepsEntry(r) ==
  LET id == requests[r].id
      call == Rejected("Worker message timeout")
  IN IF MapHas(pendingMessages, id)
     THEN /\ pendingMessages' = pendingMessages
          /\ calls' = Settle(r, call)
          /\ isModelLoaded' = ModelLoadedAfter(requests[r].type,
                                calls[r] = <<>>, call, isModelLoaded)
     ELSE UNCHANGED <<pendingMessages, calls, isModelLoaded>>
\* Mutant: the callback rejects without asking pendingMessages.has(id).
TimeoutUnchecked(r) ==
  LET id == requests[r].id
      call == Rejected("Worker message timeout")
  IN /\ pendingMessages' = MapDelete(pendingMessages, id)
     /\ calls' = Settle(r, call)
     /\ isModelLoaded' = ModelLoadedAfter(requests[r].type,
                           calls[r] = <<>>, call, isModelLoaded)
\* if (this.pendingMessages.has(id)) { delete; reject(...) }
Timeout(r) ==
  LET id == requests[r].id
      call == Rejected("Worker message timeout")
  IN IF MapHas(pendingMessages, id)
     THEN /\ pendingMessages' = MapDelete(pendingMessages, id)
          /\ calls' = Settle(r, call)
          /\ isModelLoaded' = ModelLoadedAfter(requests[r].type,
                                calls[r] = <<>>, call, isModelLoaded)
     ELSE UNCHANGED <<pendingMessages, calls, isModelLoaded>>

TimeoutFires ==
  /\ timers # {}
  /\ LET r == CHOOSE t \in timers : \A u \in timers : t <= u
     IN /\ Timeout(r)
        /\ timers' = timers \ {r}
        /\ closed' = closed \cup {requests[r].id}
        /\ lastEvent' = Event("timeout", r, NoMessage, FALSE)
  /\ UNCHANGED <<worker, loadingProgress, messageId, onProgressCallback,
                 requests, posted, received, workers>>

\* The messages the living worker can post: a success or an error for a
\* request it was sent, loading progress while it handles an 'init', and
\* partial transcriptions (progress messages without data.progress) while
\* it handles a 'transcribe'.
WorkerMessages ==
  {Message(requests[r].id, "success", r, Undefined, "none", 0) :
     r \in received}
  \cup
  {Message(requests[r].id, "error", 0, Undefined, e, 0) :
     r \in received, e \in ErrorMessages}
  \cup
  {Message(0, "progress", 0, p, "none", r) :
     r \in {q \in received : requests[q].type = "init"}, p \in ProgressValues}
  \cup
  {Message(0, "progress", 0, Undefined, "none", r) :
     r \in {q \in received : requests[q].type = "transcribe"}}

HandleWorkerMessage(m) ==
  /\ worker
  /\ IF m.type = "progress"
     THEN /\ loadingProgress' = m.progress
          /\ lastEvent' = Event("message", 0, m, onProgressCallback)
          /\ UNCHANGED <<pendingMessages, calls, isModelLoaded, closed>>
     ELSE LET r == MapGet(pendingMessages, m.id)
              call == IF m.type = "success" THEN Resolved(m.data)
                      ELSE Rejected(m.error)
          IN /\ IF r = 0
                THEN UNCHANGED <<pendingMessages, calls, isModelLoaded,
                                 loadingProgress>>
                ELSE /\ pendingMessages' = MapDelete(pendingMessages, m.id)
                     /\ calls' = Settle(r, call)
                     /\ isModelLoaded' = ModelLoadedAfter(requests[r].type,
                                           calls[r] = <<>>, call, isModelLoaded)
                     /\ loadingProgress' = ProgressAfter(requests[r].type,
                                           calls[r] = <<>>, call, loadingProgress)
             /\ closed' = closed \cup {m.id}
             /\ lastEvent' = Event("message", r, m, FALSE)
  /\ UNCHANGED <<worker, messageId, onProgressCallback, timers, requests,
                 posted, received, workers>>

SetProgressCallback(callback) ==
  /\ onProgressCallback' = callback
  /\ lastEvent' = Event("other", 0, NoMessage, FALSE)
  /\ UNCHANGED <<worker, isModelLoaded, loadingProgress, messageId,
                 pendingMessages, timers, requests, posted, received,
                 workers, calls, closed>>

\* destroy(): the worker is terminated and the table cleared; messageId is
\* left as it is and no timer is cancelled.
\* Mutant: destroy() that also sets messageId back to 0.
DestroyResetsId ==
  /\ worker' = FALSE
  /\ pendingMessages' = <<>>
  /\ isModelLoaded' = FALSE
  /\ loadingProgress' = 0
  /\ messageId' = 0
  /\ received' = {}
  /\ closed' = closed \cup IssuedIds
  /\ lastEvent' = Event("destroy", 0, NoMessage, FALSE)
  /\ UNCHANGED <<onProgressCallback, timers, requests, posted, workers,
                 calls>>
\* Mutant: destroy() that leaves loadingProgress as it is.
DestroyKeepsProgress ==
  /\ worker' = FALSE
  /\ pendingMessages' = <<>>
  /\ isModelLoaded' = FALSE
  /\ received' = {}
  /\ closed' = closed \cup IssuedIds
  /\ lastEvent' = Event("destroy", 0, NoMessage, FALSE)
  /\ UNCHANGED <<messageId, loadingProgress, onProgressCallback, timers,
                 requests, posted, workers, calls>>
Destroy ==
  /\ worker' = FALSE
  /\ pendingMessages' = <<>>
  /\ isModelLoaded' = FALSE
  /\ loadingProgress' = 0
  /\ received' = {}
  /\ closed' = closed \cup IssuedIds
  /\ lastEvent' = Event("destroy", 0, NoMessage, FALSE)
  /\ UNCHANGED <<messageId, onProgressCallback, timers, requests, posted,
                 workers, calls>>

(***************************************************************************)
(* WhisperWorker: loading progress                                         *)
(***************************************************************************)
\* Math.round of the non-negative quotient a / b.
RoundDiv(a, b) == (2 * a + b) \div (2 * b)

\* weights[filename] || 0.1, in tenths.
Weight(file) == IF file = "model.bin" THEN 7 ELSE 1

RECURSIVE SumOver(_, _, _)
\* The sum of f[x] * w(x) over the keys of the map f, w(x) being Weight(x)
\* when weighted and 1 otherwise.
SumOver(f, keys, weighted) ==
  IF keys = {} THEN 0
  ELSE LET x == CHOOSE k \in keys : TRUE
       IN (IF weighted THEN f[x] * Weight(x) ELSE f[x])
          + SumOver(f, keys \ {x}, weighted)

\* Math.round(totalProgress / totalWeight) over this.fileProgress.
WeightedProgress(fp) ==
  RoundDiv(SumOver(fp, DOMAIN fp, TRUE),
           SumOver([x \in DOMAIN fp |-> 1], DOMAIN fp, TRUE))

\* progressHistory.push(weightedProgress), shift() beyond three entries.
PushHistory(h, w) ==
  LET g == Append(h, w) IN IF Len(g) > 3 THEN Tail(g) ELSE g

\* Math.round(progressHistory.reduce((a, b) => a + b, 0) / length)
SmoothedProgress(h) ==
  RoundDiv(SumOver(h, DOMAIN h, FALSE), Len(h))

\* Mutant: the smoothed value is posted as it is.
NextLoadingProgressRaw(cur, smoothed) == smoothed
\* this.loadingProgress = Math.max(this.loadingProgress, smoothedProgress)
NextLoadingProgress(cur, smoothed) == Max(cur, smoothed)

ProgressInit ==
  /\ fileProgress = <<>>
  /\ progressHistory = <<>>
  /\ workerProgress = 0
  /\ channel = <<>>
  /\ phase = 0
  /\ reports = 0
  /\ postedProgress = <<>>
  /\ forwardedProgress = <<>>

\* initializeModel() begins in the worker the manager created:
\* this.loadingProgress = 0.  The file progress and the history of an
\* earlier call stay.
InitializeModel ==
  /\ worker
  /\ phase < MaxPhases
  /\ phase' = phase + 1
  /\ workerProgress' = 0
  /\ UNCHANGED <<fileProgress, progressHistory, channel, reports,
                 postedProgress, forwardedProgress>>

\* progressCallback(progress) of the running initializeModel, for a report
\* on a file with rounded progress raw; due tells whether 100 ms have
\* passed since the last message was posted.
ProgressCallback(file, raw, due) ==
  /\ phase >= 1
  /\ reports < MaxReports
  /\ reports' = reports + 1
  /\ LET fp == MapSet(fileProgress, file, raw)
         h == PushHistory(progressHistory, WeightedProgress(fp))
         p == NextLoadingProgress(workerProgress, SmoothedProgress(h))
     IN /\ fileProgress' = fp
        /\ progressHistory' = h
        /\ IF due
           THEN /\ workerProgress' = p
                /\ channel' = Append(channel, p)
                /\ postedProgress' =
                     Append(postedProgress, [phase |-> phase, value |-> p])
           ELSE UNCHANGED <<workerProgress, channel, postedProgress>>
  /\ UNCHANGED <<phase, forwardedProgress>>

\* The oldest progress message on its way reaches worker.onmessage and is
\* handled by handleWorkerMessage.
DeliverProgress ==
  /\ channel # <<>>
  /\ HandleWorkerMessage(Message(0, "progress", 0, Head(channel), "none", 0))
  /\ channel' = Tail(channel)
  /\ forwardedProgress' =
       IF lastEvent'.forwarded
       THEN Append(forwardedProgress,
                   [index |-> Len(postedProgress) - Len(channel) + 1,
                    value |-> lastEvent'.msg.progress])
       ELSE forwardedProgress
  /\ UNCHANGED <<fileProgress, progressHistory, workerProgress, phase,
                 reports, postedProgress>>

(***************************************************************************)
(* WhisperWorker.processAudioChunk: accumulator, updates, result           *)
(***************************************************************************)
Segment(tokens, finalised) == [tokens |-> tokens, finalised |-> finalised]

\* What the observation records of a step.
Step(op, is_last, isPartial) ==
  [op |-> op, is_last |-> is_last, isPartial |-> isPartial]

\* Mutant: the option is passed on as it is.
OrFalseKeep(x) == x
\* x || false
OrFalse(x) == IF x \in {"undefined", "false"} THEN "false" ELSE x

TranscribeInit ==
  /\ transcribing = FALSE
  /\ chunks_to_process = <<>>
  /\ options = "undefined"
  /\ lastStep = Step("none", FALSE, "none")

\* processAudioChunk(audioData, options) up to the call of the model.
ProcessAudioChunk(opt) ==
  /\ ~transcribing
  /\ transcribing' = TRUE
  /\ chunks_to_process' = <<Segment(<<>>, FALSE)>>
  /\ options' = opt
  /\ lastStep' = Step("start", FALSE, "none")

\* callback_function(item): a token event.  An item without
\* output_token_ids is skipped; when decoding throws, nothing is posted.
CallbackFunction(item, decoded) ==
  /\ transcribing
  /\ IF ~item.valid
     THEN /\ lastStep' = Step("skipped", FALSE, "none")
          /\ UNCHANGED chunks_to_process
     ELSE /\ chunks_to_process' =
               [chunks_to_process EXCEPT
                  ![Len(chunks_to_process)].tokens = item.output_token_ids]
          /\ lastStep' = IF decoded THEN Step("update", FALSE, "true")
                         ELSE Step("undecoded", FALSE, "none")
  /\ UNCHANGED <<transcribing, options>>

\* Mutant: the last segment takes the chunk and is not marked finalised.
AfterChunkCallbackOpen(segs, chunk) ==
  LET n == Len(segs)
      done == [segs EXCEPT ![n] = Segment(chunk.tokens, FALSE)]
  IN IF ~chunk.is_last THEN Append(done, Segment(<<>>, FALSE)) ELSE done
\* chunk_callback(chunk): Object.assign(last, chunk), last.finalised = true,
\* and a new empty segment unless chunk.is_last.
AfterChunkCallback(segs, chunk) ==
  LET n == Len(segs)
      done == [segs EXCEPT ![n] = Segment(chunk.tokens, TRUE)]
  IN IF ~chunk.is_last THEN Append(done, Segment(<<>>, FALSE)) ELSE done

ChunkCallback(chunk) ==
  /\ transcribing
  /\ chunk.is_last \/ Len(chunks_to_process) < MaxSegments
  /\ chunks_to_process' = AfterChunkCallback(chunks_to_process, chunk)
  /\ lastStep' = Step("boundary", chunk.is_last, "none")
  /\ UNCHANGED <<transcribing, options>>

\* The model returns and processAudioChunk returns transcriptionResult.
ReturnResult ==
  /\ transcribing
  /\ transcribing' = FALSE
  /\ lastStep' = Step("result", FALSE, OrFalse(options))
  /\ UNCHANGED <<chunks_to_process, options>>

\* The model throws and processAudioChunk throws 'Transcription failed'.
ThrowError ==
  /\ transcribing
  /\ transcribing' = FALSE
  /\ lastStep' = Step("error", FALSE, "none")
  /\ UNCHANGED <<chunks_to_process, options>>

TokenItems ==
  {[valid |-> FALSE, output_token_ids |-> <<>>]}
  \cup {[valid |-> TRUE, output_token_ids |-> t] : t \in TokenIds}

BoundaryChunks == [tokens : TokenIds, is_last : BOOLEAN]

(***************************************************************************)
(* WhisperWorker: repetition suppression                                   *)
(* A string is the sequence of its characters.                             *)
(***************************************************************************)
Repeat(c, n) == [i \in 1..n |-> c]

IsTerminator(c) == c \in {".", "!", "?"}
IsSpace(c) == c = " "

\* String.prototype.toLowerCase, on the letters the inputs are made of.
LowerChar(c) ==
  CASE c = "A" -> "a"
    [] c = "H" -> "h"
    [] OTHER -> c
ToLowerCase(str) == [i \in 1..Len(str) |-> LowerChar(str[i])]

\* The k-th smallest member of a set of positions.
Nth(S, k) == CHOOSE i \in S : Cardinality({j \in S : j <= i}) = k

RECURSIVE TrimStart(_)
TrimStart(str) ==
  IF str # <<>> /\ IsSpace(Head(str)) THEN TrimStart(Tail(str)) ELSE str

RECURSIVE TrimEnd(_)
TrimEnd(str) ==
  IF str # <<>> /\ IsSpace(str[Len(str)])
  THEN TrimEnd(SubSeq(str, 1, Len(str) - 1))
  ELSE str

\* String.prototype.trim
Trim(str) == TrimEnd(TrimStart(str))

RECURSIVE CollapseSpaces(_)
\* replace(/\s+/g, ' ')
CollapseSpaces(str) ==
  IF str = <<>> THEN <<>>
  ELSE IF IsSpace(Head(str))
       THEN <<" ">> \o CollapseSpaces(TrimStart(str))
       ELSE <<Head(str)>> \o CollapseSpaces(Tail(str))

\* sentence.toLowerCase().replace(/\s+/g, ' ').trim()
Normalize(str) == Trim(CollapseSpaces(ToLowerCase(str)))

\* text.split(/[.!?]+/) without its empty pieces: the maximal runs of
\* characters that are not terminators, in order.  (The empty pieces a
\* leading or trailing run of terminators gives are filtered out below.)
SplitPieces(text) ==
  LET starts == {i \in 1..Len(text) :
                   /\ ~IsTerminator(text[i])
                   /\ (i = 1 \/ IsTerminator(text[i - 1]))}
      ends == {i \in 1..Len(text) :
                 /\ ~IsTerminator(text[i])
                 /\ (i = Len(text) \/ IsTerminator(text[i + 1]))}
  IN [k \in 1..Cardinality(starts) |->
        SubSeq(text, Nth(starts, k), Nth(ends, k))]

\* Mutant: the pieces are not trimmed.
SplitSentencesUntrimmed(text) ==
  SelectSeq(SplitPieces(text), LAMBDA piece : Len(piece) > 0)
\* .map(s => s.trim()).filter(s => s.length > 0)
SplitSentences(text) ==
  LET pieces == SplitPieces(text)
  IN SelectSeq([i \in 1..Len(pieces) |-> Trim(pieces[i])],
               LAMBDA piece : Len(piece) > 0)

RECURSIVE Join(_, _)
\* Array.prototype.join(sep)
Join(list, sep) ==
  IF list = <<>> THEN <<>>
  ELSE IF Len(list) = 1 THEN list[1]
  ELSE list[1] \o sep \o Join(Tail(list), sep)

RECURSIVE LevRow(_, _, _, _, _, _)
\* Row i of the matrix of levenshteinDistance from column j on; prev is
\* row i - 1 and acc the columns 0..j-1 of row i.  Column j is kept at
\* index j + 1.  A cell is computed before the next one is started.
LevRow(prev, i, str1, str2, j, acc) ==
  IF j > Len(str1) THEN acc
  ELSE LET cell == IF str2[i] = str1[j]
                   THEN prev[j]
                   ELSE Min(prev[j] + 1, Min(acc[j] + 1, prev[j + 1] + 1))
           row == Append(acc, cell)
       IN IF Len(row) = j + 1
          THEN LevRow(prev, i, str1, str2, j + 1, row)
          ELSE row

RECURSIVE LevRows(_, _, _, _)
\* The rows from row i on; a row is computed before the next one is
\* started.
LevRows(prev, i, str1, str2) ==
  IF i > Len(str2) THEN prev
  ELSE LET row == LevRow(prev, i, str1, str2, 1, <<i>>)
       IN IF Len(row) = Len(str1) + 1
          THEN LevRows(row, i + 1, str1, str2)
          ELSE row

\* levenshteinDistance(str1, str2): matrix[str2.length][str1.length]
LevenshteinDistance(str1, str2) ==
  LevRows([j \in 1..(Len(str1) + 1) |-> j - 1], 1, str1, str2)[Len(str1) + 1]

\* calculateSimilarity(str1, str2) as the fraction num / den.
CalculateSimilarity(str1, str2) ==
  IF str1 = str2 THEN [num |-> 1, den |-> 1]
  ELSE IF Len(str1) = 0 \/ Len(str2) = 0 THEN [num |-> 0, den |-> 1]
  ELSE LET longer == IF Len(str1) > Len(str2) THEN str1 ELSE str2
           shorter == IF Len(str1) > Len(str2) THEN str2 ELSE str1
       IN [num |-> Len(longer) - LevenshteinDistance(longer, shorter),
           den |-> Len(longer)]

\* Mutant: similarity >= 0.8
AboveThresholdOrEqual(sim) == 5 * sim.num >= 4 * sim.den
\* similarity > 0.8
AboveThreshold(sim) == 5 * sim.num > 4 * sim.den

\* Array.from(seen).some(seen => calculateSimilarity(normalized, seen) > 0.8)
IsRepetitive(normalized, seen) ==
  \E x \in seen : AboveThreshold(CalculateSimilarity(normalized, x))

RECURSIVE CleanSentencesAdjacent(_, _, _)
\* Mutant: only the sentence kept last is remembered.
CleanSentencesAdjacent(sentences, cleaned, seen) ==
  IF sentences = <<>> THEN cleaned
  ELSE LET sentence == Head(sentences)
           normalized == Normalize(sentence)
       IN IF normalized \notin seen /\ ~IsRepetitive(normalized, seen)
          THEN CleanSentencesAdjacent(Tail(sentences),
                                      Append(cleaned, sentence), {normalized})
          ELSE CleanSentencesAdjacent(Tail(sentences), cleaned, seen)

RECURSIVE CleanSentences(_, _, _)
\* The loop of removeRepetitiveText over the sentences left, with
\* cleanedSentences and seenSentences as they stand.
CleanSentences(sentences, cleaned, seen) ==
  IF sentences = <<>> THEN cleaned
  ELSE LET sentence == Head(sentences)
           normalized == Normalize(sentence)
       IN IF normalized \notin seen /\ ~IsRepetitive(normalized, seen)
          THEN CleanSentences(Tail(sentences), Append(cleaned, sentence),
                              seen \cup {normalized})
          ELSE CleanSentences(Tail(sentences), cleaned, seen)

\* removeRepetitiveText(text)
RemoveRepetitiveText(text) ==
  IF Len(text) < 10 THEN text
  ELSE LET sentences == SplitSentences(text)
       IN IF Len(sentences) <= 1 THEN text
          ELSE Trim(Join(CleanSentences(sentences, <<>>, {}), <<".", " ">>))

RECURSIVE DedupLoopKeepEmpty(_, _, _)
\* Mutant: a chunk without text is treated like any other.
DedupLoopKeepEmpty(chunks, kept, seen) ==
  IF chunks = <<>> THEN kept
  ELSE LET chunk == Head(chunks)
           normalizedText == Normalize(chunk.text)
       IN IF ~IsRepetitive(normalizedText, seen)
          THEN DedupLoopKeepEmpty(Tail(chunks), Append(kept, chunk),
                                  seen \cup {normalizedText})
          ELSE DedupLoopKeepEmpty(Tail(chunks), kept, seen)

RECURSIVE DedupLoop(_, _, _)
\* The loop of deduplicateChunks.
DedupLoop(chunks, kept, seen) ==
  IF chunks = <<>> THEN kept
  ELSE LET chunk == Head(chunks)
           normalizedText == Normalize(chunk.text)
       IN IF chunk.text = <<>> THEN DedupLoop(Tail(chunks), kept, seen)
          ELSE IF ~IsRepetitive(normalizedText, seen)
          THEN DedupLoop(Tail(chunks), Append(kept, chunk),
                         seen \cup {normalizedText})
          ELSE DedupLoop(Tail(chunks), kept, seen)

\* deduplicateChunks(chunks)
DeduplicateChunks(chunks) ==
  IF Len(chunks) <= 1 THEN chunks ELSE DedupLoop(chunks, <<>>, {})

\* The sentences the input texts are made of: two that differ in case and
\* spacing only, neighbours of them at similarity 0.8 and 5/6, two long
\* ones at similarity 0.95, one at similarity 0.5 and a short one.
SentencePool ==
  { <<"A", "b", " ", "c", "d">>,
    <<"a", "b", " ", " ", "c", "d">>,
    <<"a", "b", " ", "c", "x">>,
    <<"a", "b", " ", "c", "d", "x">>,
    Repeat("a", 20),
    Repeat("a", 19) \o <<"b">>,
    <<"x", "y", "z", "c", "d", "x">>,
    <<"H", "i">> }
\* Every sentence ends in ". "; two of them also end in a run of
\* terminators with nothing after it.
Sentences ==
  { s \o <<".", " ">> : s \in SentencePool }
    \cup { <<"a", "b", " ", " ", "c", "d", "!", "?">>,
            <<"H", "i", "?", "!">> }
TextInputs ==
  { Join(list, <<>>) :
      list \in UNION { [1..n -> Sentences] : n \in 1..MaxSentences } }

\* The texts of the chunks: the short sentences, an empty text and a blank.
ChunkTexts ==
  { <<"A", "b", " ", "c", "d">>,
    <<"a", "b", " ", " ", "c", "d">>,
    <<"a", "b", " ", "c", "x">>,
    <<"a", "b", " ", "c", "d", "x">>,
    <<>>,
    <<" ">> }
\* A chunk carries its position as its timestamp.
ChunkInputs ==
  UNION { { [i \in 1..n |-> [text |-> texts[i], timestamp |-> i]] :
              texts \in [1..n -> ChunkTexts] } : n \in 0..MaxChunks }

TextInit ==
  /\ textCall = "none"
  /\ textIn = <<>>
  /\ textOut = <<>>
  /\ chunksIn = <<>>
  /\ chunksOut = <<>>

\* One call of removeRepetitiveText.
RemoveRepetitiveTextCall(text) ==
  /\ textCall = "none"
  /\ textCall' = "removeRepetitiveText"
  /\ textIn' = text
  /\ textOut' = RemoveRepetitiveText(text)
  /\ UNCHANGED <<chunksIn, chunksOut>>

\* One call of deduplicateChunks.
DeduplicateChunksCall(chunks) ==
  /\ textCall = "none"
  /\ textCall' = "deduplicateChunks"
  /\ chunksIn' = chunks
  /\ chunksOut' = DeduplicateChunks(chunks)
  /\ UNCHANGED <<textIn, textOut>>

(***************************************************************************)
(* Container codec: AudioManager.convertToWAV, UIController.getWAVDuration *)
(* A buffer is the sequence of its bytes, byte 0 at index 1.  A sample is  *)
(* given in thousandths: 1000 stands for 1.0.                              *)
(***************************************************************************)
\* string.charCodeAt(i) of the four tags.
TagRIFF == <<82, 73, 70, 70>>
TagWAVE == <<87, 65, 86, 69>>
TagFmt == <<102, 109, 116, 32>>
TagData == <<100, 97, 116, 97>>
TagLIST == <<76, 73, 83, 84>>

\* view.setUint16(offset, value, true) and view.setUint32(offset, value,
\* true): the value modulo 2^16 or 2^32, least significant byte first.
Uint16Bytes(value) ==
  LET v == value % 65536 IN <<v % 256, v \div 256>>
Uint32Bytes(value) ==
  <<value % 256, (value \div 256) % 256, (value \div 65536) % 256,
    (value \div 16777216) % 256>>

\* Mutant: the number is rounded to the nearest integer, halves upwards.
ToIntegerRounded(num, den) == (2 * num + den) \div (2 * den)
\* The conversion of the number num / den to an integer that setInt16
\* applies: the fraction is cut off, towards zero.
ToInteger(num, den) ==
  IF num >= 0 THEN num \div den ELSE -((-num) \div den)

\* Math.max(-1, Math.min(1, samples[i]))
ClampSample(sample) == Max(-1000, Min(1000, sample))
\* view.setInt16(offset, sample * 0x7fff, true)
Int16Bytes(sample) == Uint16Bytes(ToInteger(sample * MaxInt16, 1000))

\* The loop over the samples: sample i fills the two bytes from offset
\* 44 + 2 * i on.
SampleBytes(samples) ==
  [k \in 1..(2 * Len(samples)) |->
     Int16Bytes(ClampSample(samples[(k + 1) \div 2]))[2 - (k % 2)]]

\* Mutant: the sizes count samples, not bytes.
DataLengthInSamples(length) == length
\* length * 2, the bytes that the samples take.
DataLength(length) == length * 2

\* Mutant: the byte rate of one channel.
ByteRateOfOneChannel(sampleRate, channels) == sampleRate * 2
\* sampleRate * channels * 2, the byte rate written at offset 28.
ByteRate(sampleRate, channels) == sampleRate * channels * 2

\* convertToWAV(audioData, sampleRate, channels), audioData a Float32Array.
ConvertToWAV(samples, sampleRate, channels) ==
  LET length == Len(samples)
  IN TagRIFF \o Uint32Bytes(36 + DataLength(length)) \o TagWAVE
     \o TagFmt \o Uint32Bytes(16) \o Uint16Bytes(1)
     \o Uint16Bytes(channels) \o Uint32Bytes(sampleRate)
     \o Uint32Bytes(ByteRate(sampleRate, channels))
     \o Uint16Bytes(channels * 2)
     \o Uint16Bytes(16)
     \o TagData \o Uint32Bytes(DataLength(length))
     \o SampleBytes(samples)

\* view.getUint8 / getUint16 / getUint32 / getInt16 (little endian) at a
\* byte offset inside the buffer.
GetUint8(view, offset) == view[offset + 1]
GetUint16(view, offset) ==
  GetUint8(view, offset) + 256 * GetUint8(view, offset + 1)
GetUint32(view, offset) ==
  GetUint16(view, offset) + 65536 * GetUint16(view, offset + 2)
GetInt16(view, offset) ==
  IF GetUint16(view, offset) >= 32768
  THEN GetUint16(view, offset) - 65536
  ELSE GetUint16(view, offset)
\* The four bytes read with getUint8 from offset on.
GetTag(view, offset) == SubSeq(view, offset + 1, offset + 4)

RECURSIVE Gcd(_, _)
Gcd(a, b) == IF b = 0 THEN a ELSE Gcd(b, a % b)

\* reject(new Error(message)) and resolve(duration), the duration being
\* the fraction num / den (of seconds) in lowest terms.
RejectWav(message) ==
  [kind |-> "reject", num |-> 0, den |-> 1, message |-> message]
ResolveWav(num, den) ==
  [kind |-> "resolve", num |-> num \div Gcd(num, den),
   den |-> den \div Gcd(num, den), message |-> "none"]

RECURSIVE FindDataChunk(_, _, _)
\* The while loop of getWAVDuration from offset on: the dataSize it ends
\* with and the offsets at which it read a chunk header; declaredSize is
\* the chunkSize of the loop.
FindDataChunk(view, offset, visited) ==
  IF offset < Len(view) - 8
  THEN LET chunkId == GetTag(view, offset)
           declaredSize == GetUint32(view, offset + 4)
       IN IF chunkId = TagData
          THEN [dataSize |-> declaredSize, visited |-> visited \cup {offset}]
          ELSE FindDataChunk(view, offset + 8 + declaredSize,
                             visited \cup {offset})
  ELSE [dataSize |-> 0, visited |-> visited]

\* let dataSize = 0; let offset = 36; while (...) { ... }
DataSize(view) == FindDataChunk(view, 36, {}).dataSize

\* const headerSlice = file.slice(0, 1024)
HeaderSliceOf(file) == SubSeq(file, 1, Min(Len(file), HeaderSlice))

\* getWAVDuration(file): how its promise is settled.  A read past the end
\* of the DataView throws a RangeError, which the catch turns into 'WAV
\* parsing error'.  The duration totalSamples / sampleRate is kept as the
\* fraction dataSize * 8 / (bitsPerSample * numChannels * sampleRate); it is
\* Infinity, and refused, when that denominator is 0.
GetWAVDuration(file) ==
  LET view == HeaderSliceOf(file)
  IN IF Len(view) < 12 THEN RejectWav("WAV parsing error")
     ELSE IF GetTag(view, 0) # TagRIFF \/ GetTag(view, 8) # TagWAVE
     THEN RejectWav("Not a valid WAV file")
     ELSE IF Len(view) < 36 THEN RejectWav("WAV parsing error")
     ELSE LET sampleRate == GetUint32(view, 24)
              bitsPerSample == GetUint16(view, 34)
              numChannels == GetUint16(view, 22)
              dataSize == DataSize(view)
          IN IF dataSize = 0
             THEN RejectWav("No data chunk found in WAV file")
             ELSE IF bitsPerSample * numChannels * sampleRate = 0
             THEN RejectWav("Invalid duration calculated")
             ELSE ResolveWav(dataSize * 8,
                             bitsPerSample * numChannels * sampleRate)

\* A sub-chunk: its tag, the size it declares and as many payload bytes as
\* the file really holds of it.
SubChunk(tag, size, held) == tag \o Uint32Bytes(size) \o [i \in 1..held |-> 0]
\* The 36 bytes in front of the sub-chunks, as convertToWAV writes them.
Preamble(riff, wave, sampleRate, channels, rest) ==
  riff \o Uint32Bytes(36 + rest) \o wave
  \o TagFmt \o Uint32Bytes(16) \o Uint16Bytes(1)
  \o Uint16Bytes(channels) \o Uint32Bytes(sampleRate)
  \o Uint32Bytes(sampleRate * channels * 2) \o Uint16Bytes(channels * 2)
  \o Uint16Bytes(16)
\* Files that did not come from convertToWAV: a wrong marker, a cut-off
\* header, no data chunk, a data chunk behind another chunk (a short one, one
\* that reaches past the first 1024 bytes, one that declares more than the
\* file holds), an empty data chunk, a sample rate of 0.
WavFiles ==
  { Preamble(TagLIST, TagWAVE, 16000, 1, 12) \o SubChunk(TagData, 4, 4),
    Preamble(TagRIFF, TagLIST, 16000, 1, 12) \o SubChunk(TagData, 4, 4),
    SubSeq(Preamble(TagRIFF, TagWAVE, 16000, 1, 0), 1, 10),
    SubSeq(Preamble(TagRIFF, TagWAVE, 16000, 1, 0), 1, 30),
    Preamble(TagRIFF, TagWAVE, 16000, 1, 0),
    Preamble(TagRIFF, TagWAVE, 16000, 1, 10) \o SubChunk(TagLIST, 2, 2),
    Preamble(TagRIFF, TagWAVE, 16000, 1, 22)
      \o SubChunk(TagLIST, 2, 2) \o SubChunk(TagData, 4, 4),
    Preamble(TagRIFF, TagWAVE, 16000, 2, 36)
      \o SubChunk(TagLIST, 4, 4) \o SubChunk(TagLIST, 0, 0)
      \o SubChunk(TagData, 8, 8),
    Preamble(TagRIFF, TagWAVE, 16000, 1, 1000)
      \o SubChunk(TagLIST, 980, 980) \o SubChunk(TagData, 4, 4),
    Preamble(TagRIFF, TagWAVE, 16000, 1, 20) \o SubChunk(TagLIST, 100, 12),
    Preamble(TagRIFF, TagWAVE, 16000, 1, 8) \o SubChunk(TagData, 0, 0),
    Preamble(TagRIFF, TagWAVE, 0, 1, 12) \o SubChunk(TagData, 4, 4) }

\* The samples convertToWAV is called with, its sample rates and its
\* channel counts.
WavSampleValues == {-1500, -1000, -1, 1, 500, 2000}
WavSampleRates == {16000, 44100}
WavChannels == {1, 2}
\* One second of silence at 16000 Hz, mono.
OneSecondOfSilence ==
  [samples |-> [i \in 1..16000 |-> 0], sampleRate |-> 16000, channels |-> 1]
WavInputs ==
  [samples : UNION {[1..n -> WavSampleValues] : n \in 0..MaxWavSamples},
   sampleRate : WavSampleRates,
   channels : WavChannels]
    \cup {OneSecondOfSilence}
NoWavInput == [samples |-> <<>>, sampleRate |-> 0, channels |-> 0]
NoDuration == [kind |-> "none", num |-> 0, den |-> 1, message |-> "none"]

WavInit ==
  /\ wavCall = "none"
  /\ wavInput = NoWavInput
  /\ wavFile = <<>>
  /\ wavDuration = NoDuration

\* One call of convertToWAV.
ConvertToWAVCall(in) ==
  /\ wavCall = "none"
  /\ wavCall' = "convertToWAV"
  /\ wavInput' = in
  /\ wavFile' = ConvertToWAV(in.samples, in.sampleRate, in.channels)
  /\ UNCHANGED wavDuration

\* A file is chosen by the user.
SelectFile(file) ==
  /\ wavCall = "none"
  /\ wavCall' = "file"
  /\ wavFile' = file
  /\ UNCHANGED <<wavInput, wavDuration>>

\* One call of getWAVDuration, on the container written or the file chosen.
GetWAVDurationCall ==
  /\ wavCall \in {"convertToWAV", "file"}
  /\ wavCall' = "getWAVDuration"
  /\ wavDuration' = GetWAVDuration(wavFile)
  /\ UNCHANGED <<wavInput, wavFile>>

(***************************************************************************)
(* Resampling and mono reduction: AudioUtils.js, AudioFileReader           *)
(* A Float32Array is the sequence of its samples, in thousandths.  A value *)
(* computed from samples is the fraction <<num, den>>; <<0, 0>> is NaN.     *)
(* The arithmetic is exact.                                                *)
(***************************************************************************)
\* What a call hands back.  buffer says which Float32Array is returned: k
\* >= 1 is the array of channel k - 1 of the input (for a resampler, 1 is
\* its argument audioData), 0 is an array created by the call.  reads are
\* the indices of audioData that the call read.
ReturnBuffer(buffer, data, reads) ==
  [kind |-> "return", buffer |-> buffer, data |-> data, reads |-> reads,
   error |-> "none"]
ThrowRangeError(error) ==
  [kind |-> "throw", buffer |-> 0, data |-> <<>>, reads |-> {},
   error |-> error]
NoResult ==
  [kind |-> "none", buffer |-> 0, data |-> <<>>, reads |-> {},
   error |-> "none"]
\* The samples of an array that is returned as it is.
SamplesOf(audioData) == [i \in 1..Len(audioData) |-> <<audioData[i], 1>>]

\* Math.floor(num / den) and Math.round(num / den) for den > 0;
\* Math.round rounds halves upwards.
MathFloor(num, den) == num \div den
MathRound(num, den) == (2 * num + den) \div (2 * den)

\* audioData[index], undefined outside the array.
InArray(audioData, index) == index \in 0..(Len(audioData) - 1)
\* audioData[lower] * (1 - fraction) + audioData[upper] * fraction with
\* fraction = rem / den; NaN when an operand is undefined.
Interpolate(audioData, lower, upper, rem, den) ==
  IF InArray(audioData, lower) /\ InArray(audioData, upper)
  THEN <<audioData[lower + 1] * (den - rem) + audioData[upper + 1] * rem, den>>
  ELSE <<0, 0>>

\* Mutant: the rates are never taken as equal.
RatesNeverMatch(sourceRate, targetRate) == FALSE
\* inputSampleRate === targetSampleRate
RatesMatch(sourceRate, targetRate) == sourceRate = targetRate

\* Mutant: the upper sample is read without the clamp to the last index.
UpperIndexUnclamped(indexFloor, length) == indexFloor + 1
\* Math.min(indexFloor + 1, audioData.length - 1)
UpperIndex(indexFloor, length) == Min(indexFloor + 1, length - 1)

\* AudioUtils.resampleAudio(audioData, inputSampleRate, targetSampleRate),
\* inputSampleRate > 0.  audioData.length / ratio is
\* length * targetSampleRate / inputSampleRate; new Float32Array throws a
\* RangeError for a negative length.  i * ratio is
\* i * inputSampleRate / targetSampleRate, and the loop runs only when
\* targetSampleRate > 0.
ResampleAudio(audioData, inputSampleRate, targetSampleRate) ==
  IF RatesMatch(inputSampleRate, targetSampleRate)
  THEN ReturnBuffer(1, SamplesOf(audioData), {})
  ELSE LET length == Len(audioData)
           outputLength == MathFloor(length * targetSampleRate,
                                     inputSampleRate)
           IndexFloor(i) == MathFloor(i * inputSampleRate, targetSampleRate)
           IndexCeil(i) == UpperIndex(IndexFloor(i), length)
       IN IF outputLength < 0
          THEN ThrowRangeError("RangeError")
          ELSE ReturnBuffer(0,
                 [k \in 1..outputLength |->
                    Interpolate(audioData, IndexFloor(k - 1),
                                IndexCeil(k - 1),
                                ((k - 1) * inputSampleRate)
                                  % targetSampleRate,
                                targetSampleRate)],
                 UNION {{IndexFloor(k - 1), IndexCeil(k - 1)} :
                          k \in 1..outputLength})

\* AudioFileReader.resampleAudio(audioData, sourceSampleRate,
\* targetSampleRate), sourceSampleRate > 0: the length is rounded, and the
\* last sample is taken as it is (audioData[index] || 0) when there is no
\* sample after it.
AudioFileReaderResampleAudio(audioData, sourceSampleRate, targetSampleRate) ==
  IF RatesMatch(sourceSampleRate, targetSampleRate)
  THEN ReturnBuffer(1, SamplesOf(audioData), {})
  ELSE LET length == Len(audioData)
           newLength == MathRound(length * targetSampleRate,
                                  sourceSampleRate)
           Index(i) == MathFloor(i * sourceSampleRate, targetSampleRate)
           Resampled(i) ==
             IF Index(i) + 1 < length
             THEN Interpolate(audioData, Index(i), Index(i) + 1,
                              (i * sourceSampleRate) % targetSampleRate,
                              targetSampleRate)
             ELSE IF InArray(audioData, Index(i))
                  THEN <<audioData[Index(i) + 1], 1>>
                  ELSE <<0, 1>>
           Read(i) ==
             IF Index(i) + 1 < length
             THEN {Index(i), Index(i) + 1}
             ELSE {Index(i)}
       IN IF newLength < 0
          THEN ThrowRangeError("RangeError")
          ELSE ReturnBuffer(0,
                 [k \in 1..newLength |-> Resampled(k - 1)],
                 UNION {Read(k - 1) : k \in 1..newLength})

\* audioBufferToMono(audioBuffer): the array of the only channel, or a new
\* array with the mean of channel 0 and channel 1.
AudioBufferToMono(decoded) ==
  IF Len(decoded.channels) = 1
  THEN ReturnBuffer(1, SamplesOf(decoded.channels[1]), {})
  ELSE LET left == decoded.channels[1]
           right == decoded.channels[2]
       IN ReturnBuffer(0,
            [i \in 1..Len(left) |-> <<left[i] + right[i], 2>>], {})

\* AudioFileReader.extractAudioData(audioBuffer): channel 0, resampled to
\* 16000 Hz when the buffer has another rate.
ExtractAudioData(decoded) ==
  IF decoded.sampleRate # 16000
  THEN AudioFileReaderResampleAudio(decoded.channels[1],
                                    decoded.sampleRate, 16000)
  ELSE ReturnBuffer(1, SamplesOf(decoded.channels[1]), {})

\* The buffers, rates and channel data the functions are called with.
AudioSampleValues == {-1000, 0, 1000}
SourceRates == {8000, 16000, 44100, 48000}
TargetRates == {-16000, 0, 8000, 16000, 44100}
ChannelSampleValues == {0, 1000}
BufferRates == {16000, 48000}
ResampleInputs ==
  [channels : {<<audioData>> :
                 audioData \in UNION {[1..n -> AudioSampleValues] :
                                        n \in 0..MaxAudioLen}},
   sampleRate : SourceRates,
   targetRate : TargetRates]
AudioBuffers ==
  [channels : UNION {[1..c -> [1..n -> ChannelSampleValues]] :
                       c \in 1..MaxAudioChannels, n \in 0..MaxChannelLen},
   sampleRate : BufferRates,
   targetRate : {16000}]
NoAudioInput == [channels |-> <<>>, sampleRate |-> 0, targetRate |-> 0]

AudioInit ==
  /\ audioCall = "none"
  /\ audioInput = NoAudioInput
  /\ audioResult = NoResult

\* One call of each of the four functions.
ResampleAudioCall(in) ==
  /\ audioCall = "none"
  /\ audioCall' = "resampleAudio"
  /\ audioInput' = in
  /\ audioResult' = ResampleAudio(in.channels[1], in.sampleRate,
                                  in.targetRate)
AudioFileReaderResampleAudioCall(in) ==
  /\ audioCall = "none"
  /\ audioCall' = "AudioFileReader.resampleAudio"
  /\ audioInput' = in
  /\ audioResult' = AudioFileReaderResampleAudio(in.channels[1],
                                                 in.sampleRate, in.targetRate)
AudioBufferToMonoCall(decoded) ==
  /\ audioCall = "none"
  /\ audioCall' = "audioBufferToMono"
  /\ audioInput' = decoded
  /\ audioResult' = AudioBufferToMono(decoded)
ExtractAudioDataCall(decoded) ==
  /\ audioCall = "none"
  /\ audioCall' = "extractAudioData"
  /\ audioInput' = decoded
  /\ audioResult' = ExtractAudioData(decoded)

\* splitAudioChunks(audioData, chunkSize, sampleRate, overlap) for a
\* Float32Array, chunkSize and overlap in milliseconds.  The chunks are
\* returned in data.  i is the loop variable.  When an iteration neither
\* breaks nor has a positive step, i does not grow and end, which is at most
\* i + chunkSamples, stays below samples.length: the loop never ends.
NeverReturns ==
  [kind |-> "diverges", buffer |-> 0, data |-> <<>>, reads |-> {},
   error |-> "none"]
RECURSIVE SplitLoop(_, _, _, _, _, _)
SplitLoop(samples, i, chunkSamples, stepSize, sampleRate, chunks) ==
  IF ~(i < Len(samples)) THEN ReturnBuffer(0, chunks, {})
  ELSE LET end == Min(i + chunkSamples, Len(samples))
           chunk == SubSeq(samples, i + 1, end)
           pushed == IF 2 * Len(chunk) >= sampleRate
                     THEN Append(chunks, chunk)
                     ELSE chunks
       IN IF end >= Len(samples) THEN ReturnBuffer(0, pushed, {})
          ELSE IF stepSize <= 0 THEN NeverReturns
          ELSE SplitLoop(samples, i + stepSize, chunkSamples, stepSize,
                         sampleRate, pushed)
SplitAudioChunks(samples, size, sampleRate, overlap) ==
  LET chunkSamples == (size * sampleRate) \div 1000
      overlapSamples == (overlap * sampleRate) \div 1000
      stepSize == chunkSamples - overlapSamples
  IN SplitLoop(samples, 0, chunkSamples, stepSize, sampleRate, <<>>)

\* The arguments splitAudioChunks is called with: up to MaxAudioLen
\* samples, at 2 or 4 samples a second.
SplitInputs ==
  [channels : {<<Samples(0, n)>> : n \in 0..MaxAudioLen},
   sampleRate : {2, 4},
   targetRate : {0},
   chunkSize : {500, 1000, 1500},
   overlap : {0, 500, 1000}]
SplitAudioChunksCall(in) ==
  /\ audioCall = "none"
  /\ audioCall' = "splitAudioChunks"
  /\ audioInput' = in
  /\ audioResult' = SplitAudioChunks(in.channels[1], in.chunkSize,
                                     in.sampleRate, in.overlap)

(***************************************************************************)
(* AudioManager: recording control (startRecording, stopRecording)         *)
(* The microphone stream is available.  The MediaRecorder stops at once    *)
(* when stop() is called and fires its stop event in a later task; it also *)
(* stops by itself when the tracks of its stream end.                      *)
(***************************************************************************)
\* The promise of a call of stopRecording: pending, resolved or rejected,
\* with the values of isRecording and of recordingStartTime !== null at
\* the moment it was settled.
StopPromise(status, message, recording, startTime) ==
  [status |-> status, message |-> message, isRecording |-> recording,
   recordingStartTime |-> startTime]
PendingStop == StopPromise("pending", "none", FALSE, FALSE)

\* resolve(blob) of the promise of call k: a promise is settled once.
ResolveStop(promises, k, recording, startTime) ==
  IF promises[k].status = "pending"
  THEN [promises EXCEPT ![k] = StopPromise("resolved", "none", recording,
                                           startTime)]
  ELSE promises

RecorderInit ==
  /\ isRecording = FALSE
  /\ recordingStartTime = FALSE
  /\ mediaRecorder = "null"
  /\ onstop = 0
  /\ stopQueued = FALSE
  /\ stopTimers = {}
  /\ stopPromises = <<>>
  /\ lastStart = "none"

\* startRecording()
StartRecording ==
  IF isRecording
  THEN /\ lastStart' = "Recording is already in progress"
       /\ UNCHANGED <<isRecording, recordingStartTime, mediaRecorder, onstop,
                      stopQueued, stopTimers, stopPromises>>
  ELSE /\ mediaRecorder' = "recording"
       /\ recordingStartTime' = TRUE
       /\ onstop' = 0
       /\ isRecording' = TRUE
       /\ lastStart' = "accepted"
       \* The stop event of a recorder that was replaced is not handled by
       \* the handlers of the new one.
       /\ stopQueued' = FALSE
       /\ UNCHANGED <<stopTimers, stopPromises>>

\* stopRecording(): call number Len(stopPromises) + 1.
StopRecording ==
  LET k == Len(stopPromises) + 1
  IN /\ k <= MaxStops
     /\ IF ~isRecording \/ mediaRecorder = "null"
        THEN /\ stopPromises' =
                  Append(stopPromises,
                         StopPromise("rejected", "No recording in progress",
                                     isRecording, recordingStartTime))
             /\ UNCHANGED <<mediaRecorder, onstop, stopQueued, stopTimers>>
        ELSE /\ stopPromises' = Append(stopPromises, PendingStop)
             /\ onstop' = k
             /\ IF mediaRecorder = "recording"
                THEN /\ mediaRecorder' = "inactive"
                     /\ stopQueued' = TRUE
                     /\ UNCHANGED stopTimers
                ELSE /\ stopTimers' = stopTimers \cup {k}
                     /\ UNCHANGED <<mediaRecorder, stopQueued>>
     /\ UNCHANGED <<isRecording, recordingStartTime, lastStart>>

\* The stop event of the recorder is handled: this.mediaRecorder.onstop.
StopEvent ==
  /\ stopQueued
  /\ stopQueued' = FALSE
  /\ IF onstop = 0
     THEN UNCHANGED <<isRecording, recordingStartTime, stopPromises>>
     ELSE /\ isRecording' = FALSE
          /\ recordingStartTime' = FALSE
          /\ stopPromises' = ResolveStop(stopPromises, onstop, FALSE, FALSE)
  /\ UNCHANGED <<mediaRecorder, onstop, stopTimers, lastStart>>

\* The callback of setTimeout(..., 0) of call k of stopRecording runs.
StopTimer(k) ==
  /\ k \in stopTimers
  /\ stopTimers' = stopTimers \ {k}
  /\ stopPromises' = ResolveStop(stopPromises, k, isRecording,
                                 recordingStartTime)
  /\ UNCHANGED <<isRecording, recordingStartTime, mediaRecorder, onstop,
                 stopQueued, lastStart>>

\* The tracks of the stream end (the microphone is unplugged): the recorder
\* stops by itself and fires its stop event.
TracksEnd ==
  /\ mediaRecorder = "recording"
  /\ mediaRecorder' = "inactive"
  /\ stopQueued' = TRUE
  /\ UNCHANGED <<isRecording, recordingStartTime, onstop, stopTimers,
                 stopPromises, lastStart>>

(***************************************************************************)
(* whisper-worker: the message protocol (self.onmessage)                   *)
(* Each message starts a run of the async function self.onmessage.  A run  *)
(* goes on without interruption until it awaits the pipeline or the model; *)
(* other messages are handled while it waits.  The audio of a request is   *)
(* the number of its samples.                                              *)
(***************************************************************************)
Request(id, type, audioLength) ==
  [id |-> id, type |-> type, audioLength |-> audioLength]
HandlerRun(request, pc, audioArray, segments) ==
  [request |-> request, pc |-> pc, audioArray |-> audioArray,
   chunks_to_process |-> segments]

\* The messages of the protocol.  A partial transcription carries no id.
SuccessResponse(h, id) ==
  [id |-> id, type |-> "success", error |-> "none", from |-> h]
ErrorResponse(h, id, error) ==
  [id |-> id, type |-> "error", error |-> error, from |-> h]
TranscriptionUpdate(h) ==
  [id |-> 0, type |-> "progress", error |-> "none", from |-> h]

\* Mutant: the response carries the id of the message received last.
IdOfLatest(request) ==
  IF handlers = <<>> THEN request.id
  ELSE handlers[Len(handlers)].request.id
\* The id of a response: the id destructured from e.data of this run.
ResponseId(request) == request.id

\* processAudioChunk before it calls the model: "model" when it goes on to
\* the call, else the message of the error it throws.  Assigning to the
\* const audioArray throws a TypeError, caught and thrown again.
ModelCalled == "model"
BeforeModel(request) ==
  IF ~whisper.isInitialized \/ ~whisper.model
  THEN "Model not initialized. Call initializeModel() first."
  ELSE IF request.audioLength = 0
  THEN "Transcription failed: Empty audio data provided"
  ELSE IF request.audioLength < MinSamples
  THEN "Transcription failed: Assignment to constant variable."
  ELSE ModelCalled

ProtocolInit ==
  /\ whisper = [model |-> FALSE, isInitialized |-> FALSE]
  /\ handlers = <<>>
  /\ outbox = <<>>

\* The run h ends with the message posted; the accumulator of its call,
\* a local variable, is gone.
EndRun(h, message) ==
  /\ handlers' = [handlers EXCEPT ![h].pc = "done",
                                  ![h].chunks_to_process = <<>>]
  /\ outbox' = Append(outbox, message)

\* self.onmessage(e) up to its first await or to its end.
OnMessage(request) ==
  /\ Len(handlers) < MaxHandlers
  /\ LET h == Len(handlers) + 1
         id == ResponseId(request)
         ended(message) ==
           /\ handlers' = Append(handlers, HandlerRun(request, "done", 0, <<>>))
           /\ outbox' = Append(outbox, message)
     IN CASE request.type = "init" ->
               /\ handlers' =
                    Append(handlers, HandlerRun(request, "loading", 0, <<>>))
               /\ UNCHANGED outbox
          [] request.type = "transcribe" ->
               IF BeforeModel(request) = ModelCalled
               THEN /\ handlers' =
                         Append(handlers,
                                HandlerRun(request, "running",
                                           request.audioLength,
                                           <<Segment(<<>>, FALSE)>>))
                    /\ UNCHANGED outbox
               ELSE ended(ErrorResponse(h, id, BeforeModel(request)))
          [] request.type = "status" -> ended(SuccessResponse(h, id))
          [] OTHER -> ended(ErrorResponse(h, id, "Unknown message type"))
  /\ UNCHANGED whisper

\* The pipeline of run h is loaded: initializeModel returns and the run
\* posts its success.
PipelineResolves(h) ==
  /\ h \in DOMAIN handlers
  /\ handlers[h].pc = "loading"
  /\ whisper' = [model |-> TRUE, isInitialized |-> TRUE]
  /\ EndRun(h, SuccessResponse(h, ResponseId(handlers[h].request)))

\* The pipeline of run h fails to load.
PipelineRejects(h) ==
  /\ h \in DOMAIN handlers
  /\ handlers[h].pc = "loading"
  /\ whisper' = [whisper EXCEPT !.isInitialized = FALSE]
  /\ EndRun(h, ErrorResponse(h, ResponseId(handlers[h].request),
                             "Model initialization failed"))

\* Mutant: the accumulator is one array shared by the calls in progress.
WithTokensShared(runs, h, tokens) ==
  [k \in DOMAIN runs |->
     IF runs[k].pc = "running"
     THEN [runs[k] EXCEPT
             !.chunks_to_process[Len(runs[k].chunks_to_process)].tokens =
               tokens]
     ELSE runs[k]]
\* last.tokens = [...item[0].output_token_ids], last being the last
\* segment of the accumulator that the closure of call h holds.
WithTokens(runs, h, tokens) ==
  [runs EXCEPT
     ![h].chunks_to_process[Len(runs[h].chunks_to_process)].tokens = tokens]

\* The model calls callback_function of call h.
TokenEvent(h, item, decoded) ==
  /\ h \in DOMAIN handlers
  /\ handlers[h].pc = "running"
  /\ IF ~item.valid
     THEN UNCHANGED <<handlers, outbox>>
     ELSE /\ handlers' = WithTokens(handlers, h, item.output_token_ids)
          /\ IF decoded
             THEN /\ Len(outbox) < MaxOutbox
                  /\ outbox' = Append(outbox, TranscriptionUpdate(h))
             ELSE UNCHANGED outbox
  /\ UNCHANGED whisper

\* The model calls chunk_callback of call h.
ChunkBoundary(h, chunk) ==
  /\ h \in DOMAIN handlers
  /\ handlers[h].pc = "running"
  /\ chunk.is_last \/ Len(handlers[h].chunks_to_process) < MaxRunSegments
  /\ handlers' =
       [handlers EXCEPT
          ![h].chunks_to_process = AfterChunkCallback(@, chunk)]
  /\ UNCHANGED <<whisper, outbox>>

\* The model of call h returns: processAudioChunk returns its result and
\* the run posts its success.
ModelReturns(h) ==
  /\ h \in DOMAIN handlers
  /\ handlers[h].pc = "running"
  /\ EndRun(h, SuccessResponse(h, ResponseId(handlers[h].request)))
  /\ UNCHANGED whisper

\* The model of call h throws.
ModelThrows(h) ==
  /\ h \in DOMAIN handlers
  /\ handlers[h].pc = "running"
  /\ EndRun(h, ErrorResponse(h, ResponseId(handlers[h].request),
                             "Transcription failed: model"))
  /\ UNCHANGED whisper

\* The requests the worker can be sent next.  The sender numbers its
\* requests 1, 2, ... (++this.messageId of sendWorkerMessage).
NextRequestId == Len(handlers) + 1
RequestTypes == {"init", "transcribe", "status", "unknown"}
AudioLengths == {0, 1, MinSamples}
Requests ==
  {Request(NextRequestId, type, 0) : type \in RequestTypes \ {"transcribe"}}
  \cup
  {Request(NextRequestId, "transcribe", len) : len \in AudioLengths}
RunTokenItems ==
  {[valid |-> FALSE, output_token_ids |-> <<>>]}
  \cup {[valid |-> TRUE, output_token_ids |-> t] : t \in {<<1>>}}
RunBoundaryChunks == [tokens : {<<1>>}, is_last : BOOLEAN]

\* A step of one component leaves the others as they are.
ChunkerIdle == UNCHANGED <<chunkerVars, chunkerObs>>
CoordIdle == UNCHANGED <<coordVars, coordObs>>
ProgressIdle == UNCHANGED <<progressVars, progressObs>>
TranscribeIdle == UNCHANGED <<transcribeVars, transcribeObs>>
TextIdle == UNCHANGED textVars
WavIdle == UNCHANGED wavVars
AudioIdle == UNCHANGED audioVars
RecorderIdle == UNCHANGED recorderVars
ProtocolIdle == UNCHANGED protocolVars
\* The functions on audio data keep no state of the managers.
UtilsIdle == WavIdle /\ AudioIdle
ChunkerOnly ==
  CoordIdle /\ ProgressIdle /\ TranscribeIdle /\ TextIdle /\ UtilsIdle
  /\ RecorderIdle /\ ProtocolIdle
CoordOnly ==
  ChunkerIdle /\ ProgressIdle /\ TranscribeIdle /\ TextIdle /\ UtilsIdle
  /\ RecorderIdle /\ ProtocolIdle
ProgressOnly ==
  ChunkerIdle /\ TranscribeIdle /\ TextIdle /\ UtilsIdle /\ RecorderIdle
  /\ ProtocolIdle
TranscribeOnly ==
  ChunkerIdle /\ CoordIdle /\ ProgressIdle /\ TextIdle /\ UtilsIdle
  /\ RecorderIdle /\ ProtocolIdle
TextOnly ==
  ChunkerIdle /\ CoordIdle /\ ProgressIdle /\ TranscribeIdle /\ UtilsIdle
  /\ RecorderIdle /\ ProtocolIdle
ManagersIdle ==
  ChunkerIdle /\ CoordIdle /\ ProgressIdle /\ TranscribeIdle /\ TextIdle
  /\ RecorderIdle /\ ProtocolIdle
RecorderOnly ==
  ChunkerIdle /\ CoordIdle /\ ProgressIdle /\ TranscribeIdle /\ TextIdle
  /\ UtilsIdle /\ ProtocolIdle
ProtocolOnly ==
  ChunkerIdle /\ CoordIdle /\ ProgressIdle /\ TranscribeIdle /\ TextIdle
  /\ UtilsIdle /\ RecorderIdle
WavOnly == ManagersIdle /\ AudioIdle
AudioOnly == ManagersIdle /\ WavIdle

(***************************************************************************)
(* Specifications                                                          *)
(***************************************************************************)
Init ==
  /\ ChunkerInit /\ CoordInit /\ ProgressInit /\ TranscribeInit /\ TextInit
  /\ WavInit /\ AudioInit /\ RecorderInit /\ ProtocolInit

\* The chunker under all its operations.
Next ==
  \/ InitRealtimeProcessing /\ ChunkerOnly
  \/ StartRealtimeProcessing /\ ChunkerOnly
  \/ StopRealtimeProcessing /\ ChunkerOnly
  \/ \E n \in 0..MaxFrame : PushWithin(n, MaxWindow, MaxCounter) /\ ChunkerOnly
  \/ LoopIteration /\ ChunkerOnly
  \/ \E cfg \in Configs : ConfigureRealtimeProcessing(cfg) /\ ChunkerOnly
  \/ Cleanup /\ ChunkerOnly

Spec == Init /\ [][Next]_vars

\* Streams under one configuration: the chunker is configured, then frames
\* are pushed and flushed.
StreamNext ==
  \/ \E cfg \in Configs : Fresh /\ ConfigureRealtimeProcessing(cfg) /\ ChunkerOnly
  \/ \E n \in 0..MaxFrame :
       PushWithin(n, MaxSamples, MaxStreamCounter) /\ ChunkerOnly
  \/ LoopIteration /\ ChunkerOnly
  \/ StopRealtimeProcessing /\ ChunkerOnly

StreamSpec == Init /\ [][StreamNext]_vars

\* Callbacks are registered and removed while frames are pushed and the
\* stream is stopped, under the configuration of the constructor.
CallbackNext ==
  \/ \E onChunkReady \in CallbackFunctions \cup {NotAFunction} :
       InitRealtimeProcessingWith(onChunkReady) /\ ChunkerOnly
  \/ \E callback \in CallbackFunctions \cup {NotAFunction} :
       /\ Len(chunkCallbacks) < MaxCallbacks
       /\ AddChunkCallback(callback) /\ ChunkerOnly
  \/ \E callback \in CallbackFunctions :
       RemoveChunkCallback(callback) /\ ChunkerOnly
  \/ StartRealtimeProcessing /\ ChunkerOnly
  \/ \E n \in 1..MaxFrame :
       PushWithin(n, MaxCallbackSamples, MaxCounter) /\ ChunkerOnly
  \/ StopRealtimeProcessing /\ ChunkerOnly

CallbackSpec == Init /\ [][CallbackNext]_vars

\* Recordings are started and stopped while the events of the recorder
\* and the timers are handled.
RecorderNext ==
  \/ StartRecording /\ RecorderOnly
  \/ StopRecording /\ RecorderOnly
  \/ StopEvent /\ RecorderOnly
  \/ \E k \in 1..MaxStops : StopTimer(k) /\ RecorderOnly
  \/ TracksEnd /\ RecorderOnly

RecorderSpec == Init /\ [][RecorderNext]_vars

\* The coordinator under all its operations.
CoordNext ==
  \/ InitializeWorker /\ CoordOnly
  \/ LoadWhisperModel /\ CoordOnly
  \/ TranscribeAudio /\ CoordOnly
  \/ DetectLanguage /\ CoordOnly
  \/ SendStatus /\ CoordOnly
  \/ TimeoutFires /\ CoordOnly
  \/ \E m \in WorkerMessages : HandleWorkerMessage(m) /\ CoordOnly
  \/ \E callback \in BOOLEAN : SetProgressCallback(callback) /\ CoordOnly
  \/ Destroy /\ CoordOnly

CoordSpec == Init /\ [][CoordNext]_vars

\* The event loop runs the callback of every timer that was set.
CoordFairSpec == CoordSpec /\ WF_vars(TimeoutFires /\ CoordOnly)

\* The worker loads the model and reports progress; the coordinator handles
\* the progress messages in the order they were posted.
ProgressNext ==
  \/ InitializeWorker /\ CoordOnly
  \/ SetProgressCallback(TRUE) /\ CoordOnly
  \/ InitializeModel /\ CoordIdle /\ ProgressOnly
  \/ \E file \in ReportFiles, raw \in RawProgress, due \in BOOLEAN :
       ProgressCallback(file, raw, due) /\ CoordIdle /\ ProgressOnly
  \/ DeliverProgress /\ ProgressOnly

ProgressSpec == Init /\ [][ProgressNext]_vars

\* One call of processAudioChunk after another, each with its token
\* events and segment boundaries in any order.
TranscribeNext ==
  \/ \E opt \in IsPartialOptions : ProcessAudioChunk(opt) /\ TranscribeOnly
  \/ \E item \in TokenItems, decoded \in BOOLEAN :
       CallbackFunction(item, decoded) /\ TranscribeOnly
  \/ \E chunk \in BoundaryChunks : ChunkCallback(chunk) /\ TranscribeOnly
  \/ ReturnResult /\ TranscribeOnly
  \/ ThrowError /\ TranscribeOnly

TranscribeSpec == Init /\ [][TranscribeNext]_vars

\* The repetition suppression of the worker, one call on one input.
TextNext ==
  \/ \E text \in TextInputs : RemoveRepetitiveTextCall(text) /\ TextOnly
  \/ \E chunks \in ChunkInputs : DeduplicateChunksCall(chunks) /\ TextOnly

TextSpec == Init /\ [][TextNext]_vars

\* The container codec: a buffer is encoded, or a file is handed in, and
\* the header of what there is gets decoded.
WavNext ==
  \/ \E in \in WavInputs : ConvertToWAVCall(in) /\ WavOnly
  \/ \E file \in WavFiles : SelectFile(file) /\ WavOnly
  \/ GetWAVDurationCall /\ WavOnly

WavSpec == Init /\ [][WavNext]_vars

\* One call of a resampler or of a mono reduction.
AudioNext ==
  \/ \E in \in ResampleInputs : ResampleAudioCall(in) /\ AudioOnly
  \/ \E in \in ResampleInputs :
       AudioFileReaderResampleAudioCall(in) /\ AudioOnly
  \/ \E decoded \in AudioBuffers :
       AudioBufferToMonoCall(decoded) /\ AudioOnly
  \/ \E decoded \in AudioBuffers :
       ExtractAudioDataCall(decoded) /\ AudioOnly
  \/ \E in \in SplitInputs : SplitAudioChunksCall(in) /\ AudioOnly

AudioSpec == Init /\ [][AudioNext]_vars

\* The worker under the messages it is sent and the events of the pipeline
\* and of the model.
ProtocolNext ==
  \/ \E request \in Requests : OnMessage(request) /\ ProtocolOnly
  \/ \E h \in 1..MaxHandlers : PipelineResolves(h) /\ ProtocolOnly
  \/ \E h \in 1..MaxHandlers : PipelineRejects(h) /\ ProtocolOnly
  \/ \E h \in 1..MaxHandlers, item \in RunTokenItems, decoded \in BOOLEAN :
       TokenEvent(h, item, decoded) /\ ProtocolOnly
  \/ \E h \in 1..MaxHandlers, chunk \in RunBoundaryChunks :
       ChunkBoundary(h, chunk) /\ ProtocolOnly
  \/ \E h \in 1..MaxHandlers : ModelReturns(h) /\ ProtocolOnly
  \/ \E h \in 1..MaxHandlers : ModelThrows(h) /\ ProtocolOnly

ProtocolSpec == Init /\ [][ProtocolNext]_vars

(***************************************************************************)
(* Claims about the stream chunker                                         *)
(***************************************************************************)
\* The tags of the samples of a chunk.
TagsOf(chunk) == {chunk.audioData[i] : i \in 1..Len(chunk.audioData)}

\* C1: with overlap < chunk length, any two consecutive non-final emitted
\* chunks both hold exactly chunk_samples samples, the last overlap_samples
\* samples of the first are the first overlap_samples samples of the second,
\* and the two chunks have exactly these samples in common.
C1_ConsecutiveChunksShareOverlap ==
  overlapSize < chunkSize =>
    \A k \in 1..(Len(emitted) - 1) :
      (~emitted[k].isFinal /\ ~emitted[k + 1].isFinal) =>
        LET a == emitted[k].audioData
            b == emitted[k + 1].audioData
            c == ChunkSamples(chunkSize)
            o == OverlapSamples(overlapSize)
        IN /\ Len(a) = c
           /\ Len(b) = c
           /\ SubSeq(a, c - o + 1, c) = SubSeq(b, 1, o)
           /\ Cardinality(TagsOf(emitted[k]) \cap TagsOf(emitted[k + 1])) = o

\* C1 witness: two consecutive non-final chunks that share at least one
\* sample, cut by a loop that terminates.
C1_Witness ==
  /\ ~looping
  /\ overlapSize < chunkSize
  /\ OverlapSamples(overlapSize) >= 1
  /\ StepSize(chunkSize, overlapSize) >= 1
  /\ \E k \in 1..(Len(emitted) - 1) :
       ~emitted[k].isFinal /\ ~emitted[k + 1].isFinal

\* What the callbacks saw of a chunk, its id aside.
Contents(out) ==
  [k \in 1..Len(out) |->
     [audioData |-> out[k].audioData, isFinal |-> out[k].isFinal]]

\* The number of k = 0, 1, ... with k*step + chunk <= n, for step >= 1.
NonFinalCount(n, c, step) == Cardinality({k \in 0..n : k * step + c <= n})

\* The non-final chunks of a stream of n samples: samples
\* [k*step, k*step + chunk) for each such k.
NonFinalChunks(n, c, step) ==
  [k \in 1..NonFinalCount(n, c, step) |->
     [audioData |-> Samples((k - 1) * step, c), isFinal |-> FALSE]]

\* The final chunk: the samples from (number of non-final chunks)*step to n.
FinalChunk(n, c, step) ==
  LET from == NonFinalCount(n, c, step) * step
  IN [audioData |-> Samples(from, n - from), isFinal |-> TRUE]

\* A stream under one configuration with step >= 1 has been pushed from an
\* empty window and flushed.
StreamFlushed ==
  /\ Flushed
  /\ clean
  /\ StepSize(chunkSize, overlapSize) >= 1

\* C2 as stated: after the flush of a stream of N >= 1 samples the emitted
\* chunks are the non-final chunks followed by one final chunk, always.
C2_AlwaysOneFinalChunk ==
  (StreamFlushed /\ nextSample >= 1) =>
    LET c == ChunkSamples(chunkSize)
        step == StepSize(chunkSize, overlapSize)
    IN Contents(emitted) =
         NonFinalChunks(nextSample, c, step)
           \o <<FinalChunk(nextSample, c, step)>>

\* C2 as amended: after the flush of a stream of N samples, framed in any
\* way, the emitted chunks are the non-final chunks [k*step, k*step + chunk)
\* for every k with k*step + chunk <= N, followed by one final chunk holding
\* the samples from (number of non-final chunks)*step up to N when there are
\* such samples, and by nothing when there are none.
C2_FlushedStreamChunks ==
  StreamFlushed =>
    LET c == ChunkSamples(chunkSize)
        step == StepSize(chunkSize, overlapSize)
        rest == nextSample - NonFinalCount(nextSample, c, step) * step
    IN Contents(emitted) =
         NonFinalChunks(nextSample, c, step)
           \o (IF rest > 0 THEN <<FinalChunk(nextSample, c, step)>> ELSE <<>>)

\* C2 witness: chunk 2.5 s, overlap 0.5 s and 6.0 s of input, flushed: two
\* non-final chunks and a final one.
C2_Witness ==
  /\ StreamFlushed
  /\ chunkSize = 2500
  /\ overlapSize = 500
  /\ nextSample * 1000 = 6000 * SampleRate
  /\ Len(emitted) = 3
  /\ emitted[3].isFinal

\* C3: a stop on a non-empty window emits exactly one chunk, marked final
\* and holding all the samples of the window, and empties the window; a stop
\* right after a stop emits nothing and changes no state of the chunker.
C3_FlushOnceThenNothing ==
  [][/\ (lastOp' = "stop" /\ audioBuffer # <<>>) =>
          /\ emitted' = Append(emitted,
                          ChunkData(chunkCounter, audioBuffer, TRUE))
          /\ audioBuffer' = <<>>
          /\ chunkCounter' = chunkCounter + 1
     /\ (lastOp \in {"stop", "stop2"} /\ lastOp' = "stop2") =>
          /\ emitted' = emitted
          /\ UNCHANGED chunkerVars]_vars

\* C3 witness: a second stop in a row, after a first one that emitted the
\* final chunk.
C3_Witness ==
  /\ lastOp = "stop2"
  /\ emitted # <<>>
  /\ emitted[Len(emitted)].isFinal
  /\ audioBuffer = <<>>

\* C4: whenever processAudioData has returned, the window holds strictly
\* fewer than chunk_samples samples and readyForChunk is false.
C4_WindowBelowChunkAfterPush ==
  lastOp = "push" =>
    /\ Len(audioBuffer) < ChunkSamples(chunkSize)
    /\ ~ReadyForChunk

\* C4 witness: a frame was pushed that emitted a chunk and left samples in
\* the window.
C4_Witness ==
  /\ lastOp = "push"
  /\ emitted # <<>>
  /\ audioBuffer # <<>>

(***************************************************************************)
(* Claims about the inference coordinator                                  *)
(***************************************************************************)
\* The request that was assigned correlation id k.
RequestOf(k) == CHOOSE r \in 1..Len(requests) : requests[r].id = k

\* The step handled a success or error response of the worker.
ResponseHandled == lastEvent'.op = "message" /\
                   lastEvent'.msg.type \in {"success", "error"}

\* C5: when the timer of a request runs while its entry is still pending
\* (no response arrived), the request is rejected with 'Worker message
\* timeout' and its entry is removed in that step; a success or error
\* response for an id that is not pending settles nothing and leaves the
\* coordinator's state as it is; a message is posted to the worker only by
\* a new call of sendWorkerMessage, once, so nothing is sent again.
C5_TimeoutRejectsAndLateResponseIsDropped ==
  [][ /\ \A r \in 1..Len(requests) :
           ( /\ lastEvent'.op = "timeout" /\ lastEvent'.req = r
             /\ r \in timers
             /\ MapHas(pendingMessages, requests[r].id) ) =>
             /\ calls' = [calls EXCEPT
                            ![r] = <<Rejected("Worker message timeout")>>]
             /\ ~MapHas(pendingMessages', requests[r].id)
      /\ (ResponseHandled /\ ~MapHas(pendingMessages, lastEvent'.msg.id)) =>
           UNCHANGED <<coordVars, calls, requests, posted>>
      /\ posted' # posted =>
           /\ Len(requests') = Len(requests) + 1
           /\ posted' = Append(posted, requests'[Len(requests')].id)
    ]_vars

\* A request was rejected by its timeout, and a success response for its id
\* was handled after that and dropped; one message was posted in all.
C5_Witness ==
  /\ lastEvent.op = "message"
  /\ lastEvent.msg.type = "success"
  /\ lastEvent.req = 0
  /\ Len(posted) = 1
  /\ lastEvent.msg.id = posted[1]
  /\ calls[RequestOf(posted[1])] = <<Rejected("Worker message timeout")>>
  /\ ~MapHas(pendingMessages, posted[1])

\* C6: no two requests were given the same id, also across destroy() and a
\* new worker; an entry of the table holds the continuation of the request
\* that was given its id, and no request is held twice; the table holds an
\* entry for id k exactly when k was given out and neither a response for
\* k was delivered, nor its timer ran, nor destroy() was called since.
C6_IdsUniqueAndEntriesFollowLifecycle ==
  /\ \A i, j \in 1..Len(requests) :
       (i # j /\ requests[i].id # 0) => requests[i].id # requests[j].id
  /\ \A k \in DOMAIN pendingMessages : requests[pendingMessages[k]].id = k
  /\ \A a, b \in DOMAIN pendingMessages :
       pendingMessages[a] = pendingMessages[b] => a = b
  /\ DOMAIN pendingMessages = IssuedIds \ closed

\* A request was submitted to the first worker, the manager was destroyed
\* and given a second worker, and a second request is pending there.
C6_Witness ==
  /\ Len(requests) = 2
  /\ requests[1].worker = 1 /\ requests[1].id = 1
  /\ requests[2].worker = 2 /\ requests[2].id = 2
  /\ DOMAIN pendingMessages = {2}

\* C7: resolve and reject of a request are called at most once in all.
C7_SettledAtMostOnce ==
  \A r \in 1..MaxRequests : Len(calls[r]) <= 1

\* A request was resolved by its response, its timer ran afterwards, and a
\* second response with its id was handled after that.
C7_Witness ==
  \E r \in 1..Len(requests) :
    /\ requests[r].id # 0
    /\ calls[r] = <<Resolved(r)>>
    /\ r \notin timers
    /\ lastEvent.op = "message"
    /\ lastEvent.msg.type = "error"
    /\ lastEvent.msg.id = requests[r].id
    /\ lastEvent.req = 0

\* C8: a success or error response with a pending id k settles the request
\* that was given id k, with the data or error message of that response,
\* removes the entry of k and leaves every other entry and every other
\* request as it was; the timeout of a request changes no other request
\* and no other entry.
C8_ResponseSettlesExactlyItsRequest ==
  [][ /\ (ResponseHandled /\ MapHas(pendingMessages, lastEvent'.msg.id)) =>
           LET m == lastEvent'.msg
               r == RequestOf(m.id)
               call == IF m.type = "success" THEN Resolved(m.data)
                       ELSE Rejected(m.error)
           IN /\ calls' = [calls EXCEPT ![r] = <<call>>]
              /\ pendingMessages' = MapDelete(pendingMessages, m.id)
      /\ lastEvent'.op = "timeout" =>
           LET r == lastEvent'.req
           IN /\ \A q \in 1..MaxRequests : q # r => calls'[q] = calls[q]
              /\ \A k \in DOMAIN pendingMessages :
                   k # requests[r].id =>
                     /\ MapHas(pendingMessages', k)
                     /\ pendingMessages'[k] = pendingMessages[k]
    ]_vars

\* Two requests were pending together and the later one was answered first:
\* it is resolved with its own result and the earlier one is still pending.
C8_Witness ==
  /\ Len(requests) = 2
  /\ lastEvent.op = "message"
  /\ lastEvent.msg.id = requests[2].id
  /\ lastEvent.req = 2
  /\ calls[2] = <<Resolved(2)>>
  /\ calls[1] = <<>>
  /\ DOMAIN pendingMessages = {requests[1].id}
  /\ pendingMessages[requests[1].id] = 1

\* C9: a progress message (loading progress or a partial transcription)
\* that the worker posted for a request which was rejected by its timeout
\* is not forwarded to the progress callback and leaves loadingProgress,
\* the pending table and isModelLoaded as they were.
C9_LateProgressIsDropped ==
  [][ ( /\ lastEvent'.op = "message"
        /\ lastEvent'.msg.type = "progress"
        /\ calls[lastEvent'.msg.owner] =
             <<Rejected("Worker message timeout")>> ) =>
        /\ UNCHANGED <<loadingProgress, pendingMessages, isModelLoaded>>
        /\ ~lastEvent'.forwarded
    ]_vars

\* C10: every request submitted with sendWorkerMessage is eventually
\* settled (resolve or reject is called), whatever messages, timer expiries
\* and destroy() calls follow.
C10_EveryRequestEventuallySettled ==
  \A r \in 1..MaxRequests : (Len(requests) >= r) ~> (calls[r] # <<>>)

C12_AccumulatorInvariant ==
  /\ [](transcribing =>
          /\ Len(chunks_to_process) >= 1
          /\ \A i \in 1..(Len(chunks_to_process) - 1) :
               chunks_to_process[i].finalised)
  /\ [][ lastStep'.op = "boundary" =>
           LET n == Len(chunks_to_process)
           IN /\ chunks_to_process'[n].finalised
              /\ \A i \in 1..(n - 1) :
                   chunks_to_process'[i] = chunks_to_process[i]
              /\ IF lastStep'.is_last
                 THEN Len(chunks_to_process') = n
                 ELSE /\ Len(chunks_to_process') = n + 1
                      /\ chunks_to_process'[n + 1] = Segment(<<>>, FALSE)
       ]_vars

\* Two boundaries passed, tokens arrived for the third segment, and then
\* the boundary flagged is_last closed it.
C12_Witness ==
  /\ transcribing
  /\ Len(chunks_to_process) = 3
  /\ chunks_to_process[3].finalised
  /\ chunks_to_process[3].tokens = <<1, 2>>
  /\ lastStep.op = "boundary"
  /\ lastStep.is_last

\* C13 as stated: every streamed update has isPartial = true and every
\* result returned has isPartial = false, whatever the options.
C13_ResultNeverPartial ==
  /\ lastStep.op = "update" => lastStep.isPartial = "true"
  /\ lastStep.op = "result" => lastStep.isPartial = "false"

\* C13, amended: every streamed update has isPartial = true; the result
\* returned has isPartial = true when the request's options carry
\* isPartial: true, and isPartial = false when they carry false or nothing.
C13_ResultPartialOnlyOnRequest ==
  /\ lastStep.op = "update" => lastStep.isPartial = "true"
  /\ lastStep.op = "result" =>
       lastStep.isPartial = IF options = "true" THEN "true" ELSE "false"

\* A request without options.isPartial returned its result after updates
\* were streamed for two segments.
C13_Witness ==
  /\ lastStep.op = "result"
  /\ options = "undefined"
  /\ lastStep.isPartial = "false"
  /\ Len(chunks_to_process) = 2
  /\ chunks_to_process[2].tokens # <<>>

\* The sentences of a text whose normalised form is norm.
Instances(text, norm) ==
  LET sentences == SplitSentences(text)
  IN { i \in 1..Len(sentences) : Normalize(sentences[i]) = norm }
\* The normalised forms that two or more sentences of the text share.
DuplicatedForms(text) ==
  LET sentences == SplitSentences(text)
  IN { norm \in { Normalize(sentences[i]) : i \in 1..Len(sentences) } :
         Cardinality(Instances(text, norm)) >= 2 }

\* C14 (as stated): whenever the text given to removeRepetitiveText holds
\* two sentences that are equal after normalisation, the returned text
\* holds only one instance of that sentence.
C14_ExactDuplicatesRemoved ==
  textCall = "removeRepetitiveText" =>
    \A norm \in DuplicatedForms(textIn) :
      Cardinality(Instances(textOut, norm)) <= 1

\* C14 (amended): the same for every text of at least 10 characters; a
\* shorter text is returned as it is, duplicates included.
C14_ExactDuplicatesRemovedFromLongTexts ==
  textCall = "removeRepetitiveText" =>
    IF Len(textIn) >= 10
    THEN \A norm \in DuplicatedForms(textIn) :
           Cardinality(Instances(textOut, norm)) <= 1
    ELSE textOut = textIn

C14_Witness ==
  /\ textCall = "removeRepetitiveText"
  /\ Len(textIn) >= 10
  /\ \E norm \in DuplicatedForms(textIn) :
       Cardinality(Instances(textOut, norm)) = 1

\* similarity = (max_len - edit_distance) / max_len, as a fraction of 100.
SimilarityIs(a, b, hundredths) ==
  LET maxLen == Max(Len(a), Len(b))
  IN 100 * (maxLen - LevenshteinDistance(a, b)) = hundredths * maxLen
\* Two normalised segments match: they are equal, or their similarity
\* exceeds 0.8.
Matches(a, b) ==
  LET maxLen == Max(Len(a), Len(b))
  IN a = b \/ 5 * (maxLen - LevenshteinDistance(a, b)) > 4 * maxLen
\* The segments at the positions K, in their order.
SegmentsAt(segments, K) ==
  [k \in 1..Cardinality(K) |-> segments[Nth(K, k)]]
\* The positions whose segment is the first of its spelling and is found
\* in the output.
KeptPositions(segments, output) ==
  { i \in 1..Len(segments) :
      /\ \E k \in 1..Len(output) : output[k] = segments[i]
      /\ \A j \in 1..(i - 1) : segments[j] # segments[i] }
\* removeRepetitiveText went through the segments of its text.
WalkedSegments ==
  /\ textCall = "removeRepetitiveText"
  /\ Len(textIn) >= 10
  /\ Len(SplitSentences(textIn)) >= 2

\* C15: when removeRepetitiveText walks the segments of a text in order, a
\* segment is dropped exactly when its normalised form equals that of a
\* segment already kept or is more than 0.8 similar to one; the segments of
\* the output are the kept ones, unchanged and in their original order.  Of
\* two segments at similarity 0.95 only the first is kept; at similarity
\* 0.5 or exactly 0.8 both are.
C15_DroppedIffMatchesKeptSegment ==
  WalkedSegments =>
    LET segments == SplitSentences(textIn)
        output == SplitSentences(textOut)
        normalized == [i \in 1..Len(segments) |-> Normalize(segments[i])]
        kept == KeptPositions(segments, output)
    IN /\ output = SegmentsAt(segments, kept)
       /\ \A i \in 1..Len(segments) :
            i \notin kept <=>
              \E j \in kept : j < i /\ Matches(normalized[i], normalized[j])
       /\ Len(segments) = 2 =>
            /\ SimilarityIs(normalized[1], normalized[2], 95)
                 => output = <<segments[1]>>
            /\ SimilarityIs(normalized[1], normalized[2], 50)
                 => output = segments
            /\ SimilarityIs(normalized[1], normalized[2], 80)
                 => output = segments

C15_Witness ==
  /\ WalkedSegments
  /\ SplitSentences(textIn)
       = <<Repeat("a", 20), Repeat("a", 19) \o <<"b">>,
           <<"a", "b", " ", "c", "x">>>>
  /\ SplitSentences(textOut)
       = <<Repeat("a", 20), <<"a", "b", " ", "c", "x">>>>

\* The positions of the chunks that deduplicateChunks returned.
ReturnedPositions == { chunksOut[k].timestamp : k \in 1..Len(chunksOut) }
\* Chunk i is more than 0.8 similar to a returned chunk before it.
SimilarToKept(i) ==
  \E j \in ReturnedPositions :
    /\ j < i
    /\ Matches(Normalize(chunksIn[i].text), Normalize(chunksIn[j].text))

\* C16 (as stated): deduplicateChunks returns a subsequence of its input in
\* the original order, the kept chunks unmodified; a chunk is dropped
\* exactly when its normalised text is more than 0.8 similar to that of a
\* chunk already kept.
C16_ChunkDroppedIffSimilarToKept ==
  textCall = "deduplicateChunks" =>
    /\ ReturnedPositions \subseteq 1..Len(chunksIn)
    /\ chunksOut = SegmentsAt(chunksIn, ReturnedPositions)
    /\ \A i \in 1..Len(chunksIn) :
         i \notin ReturnedPositions <=> SimilarToKept(i)

\* C16 (amended): the same, except that of two or more chunks those with
\* an empty text are dropped as well, whatever they are similar to.
C16_ChunkDroppedIffEmptyOrSimilarToKept ==
  textCall = "deduplicateChunks" =>
    /\ ReturnedPositions \subseteq 1..Len(chunksIn)
    /\ chunksOut = SegmentsAt(chunksIn, ReturnedPositions)
    /\ \A i \in 1..Len(chunksIn) :
         i \notin ReturnedPositions <=>
           \/ Len(chunksIn) >= 2 /\ chunksIn[i].text = <<>>
           \/ SimilarToKept(i)

C16_Witness ==
  /\ textCall = "deduplicateChunks"
  /\ Len(chunksIn) = 3
  /\ chunksIn[1].text = <<>>
  /\ ReturnedPositions = {2}
  /\ SimilarToKept(3)

\* C17: after any sequence of configureRealtimeProcessing calls the stored
\* configuration is valid: overlapSize < chunkSize, so that a step is at
\* least one sample, 0.5 s <= chunkSize <= 10 s and
\* 0 <= overlapSize <= 0.8 * chunkSize.
C17_StoredConfigurationValid ==
  /\ overlapSize < chunkSize
  /\ StepSize(chunkSize, overlapSize) >= 1
  /\ 500 <= chunkSize /\ chunkSize <= 10000
  /\ 0 <= overlapSize /\ 5 * overlapSize <= 4 * chunkSize

\* C18: invalid chunking parameters (an overlap that is not smaller than
\* the chunk) are turned down when they are supplied and never surface
\* while chunks are emitted: no call of processAudioData finds a chunk
\* ready with a step of zero or fewer samples, and so none fails to return.
C18_InvalidParametersNeverReachEmission ==
  /\ ~looping
  /\ isRealtimeProcessing => ~LoopDiverges(audioBuffer, chunkSize, overlapSize)

\* The sample is part of one of the chunks.
Delivered(sample, chunks) ==
  \E k \in 1..Len(chunks) :
    \E i \in 1..Len(chunks[k].audioData) : chunks[k].audioData[i] = sample

\* C19: trailing audio is never lost.  While processing is active the
\* window holds only samples pushed since it was started, and whatever the
\* next call is, each of them is still in the window afterwards or has been
\* handed to the callbacks in a chunk; so once processing has been stopped,
\* every sample pushed while it was active was delivered.
C19_TrailingAudioNeverLost ==
  [][isRealtimeProcessing /\ ~looping' =>
       \A i \in 1..Len(audioBuffer) :
         \/ \E j \in 1..Len(audioBuffer') : audioBuffer'[j] = audioBuffer[i]
         \/ Delivered(audioBuffer[i], emitted)
         \/ Delivered(audioBuffer[i], emitted')]_vars

\* Request r was refused by sendWorkerMessage for want of a worker.
WorkerNotInitialized(r) ==
  /\ requests[r].id = 0
  /\ calls[r] = <<Rejected("Worker not initialized")>>

\* C20: an operation refused by a guard leaves the coordinator unchanged.
\* transcribeAudio and detectLanguage called before the model is loaded
\* throw 'Model not loaded', and sendWorkerMessage called without a worker
\* rejects with 'Worker not initialized'; in each case no correlation id
\* is allocated, no pending entry is created and nothing is posted.
C20_RefusalsLeaveCoordinatorUnchanged ==
  [][/\ lastEvent'.op = "refused" =>
          /\ ~isModelLoaded
          /\ UNCHANGED <<coordVars, posted, requests, calls>>
     /\ Len(requests') = Len(requests) + 1 =>
          IF worker
          THEN requests'[Len(requests')].id = messageId + 1
          ELSE /\ requests'[Len(requests')].id = 0
               /\ calls'[Len(requests')]
                    = <<Rejected("Worker not initialized")>>
               /\ UNCHANGED <<coordVars, posted>>]_vars

C20_Witness ==
  /\ lastEvent.op = "refused"
  /\ worker
  /\ posted # <<>>
  /\ \E r \in 1..Len(requests) : WorkerNotInitialized(r)

\* The promise of request r was settled in this step.
SettledNow(r) == calls[r] = <<>> /\ calls'[r] # <<>>

\* C21: isReady() is true only after a success response to an init
\* request.  When the init request fails (error response, timeout or no
\* worker) loadWhisperModel rejects with 'Model loading failed: ...' and
\* isReady() is false afterwards; nothing else, no other message, result or
\* failure, turns isReady() from false to true.
C21_ReadyOnlyAfterInitSuccess ==
  [][/\ ~isModelLoaded /\ isModelLoaded' =>
          /\ lastEvent'.op = "message"
          /\ lastEvent'.msg.type = "success"
          /\ lastEvent'.req # 0
          /\ requests[lastEvent'.req].type = "init"
          /\ SettledNow(lastEvent'.req)
     /\ \A r \in 1..Len(requests') :
          requests'[r].type = "init" /\ SettledNow(r)
            /\ calls'[r][1].kind = "reject" =>
              /\ ~isModelLoaded'
              /\ LoadWhisperModelOutcome(calls'[r][1]).kind = "reject"
              /\ LoadWhisperModelOutcome(calls'[r][1]).prefix
                   = "Model loading failed: "]_vars

C21_Witness ==
  /\ Len(requests) = 2
  /\ requests[1].type = "init" /\ requests[2].type = "init"
  /\ calls[1] # <<>> /\ calls[1][1].kind = "resolve"
  /\ calls[2] # <<>> /\ calls[2][1].kind = "reject"
  /\ lastEvent.req = 2
  /\ ~isModelLoaded

\* What destroy() leaves behind.
Destroyed ==
  /\ ~worker
  /\ pendingMessages = <<>>
  /\ ~isModelLoaded
  /\ loadingProgress = 0

\* C22: after destroy(), from any state, the worker reference is null, the
\* pending table is empty, isReady() is false and getLoadingProgress() is
\* 0; destroy() returns also when there is no worker, and a second
\* destroy() right after the first leaves the coordinator as the first
\* left it.
C22_DestroyResetsTheCoordinator ==
  /\ [](lastEvent.op = "destroy" => Destroyed)
  /\ [][lastEvent.op = "destroy" /\ lastEvent'.op = "destroy"
          => UNCHANGED coordVars]_vars
  /\ [][~worker /\ lastEvent'.op = "destroy"
          => Destroyed' /\ UNCHANGED coordVars]_vars

C22_Witness ==
  /\ lastEvent.op = "destroy"
  /\ Len(requests) = 2
  /\ calls[1] # <<>> /\ calls[1][1].kind = "resolve"
  /\ requests[1].type = "init"
  /\ calls[2] = <<>>
  /\ 2 \in timers

\* getWAVDuration returned for a container that convertToWAV wrote.
RoundTrip == wavCall = "getWAVDuration" /\ wavInput # NoWavInput

\* C23 (as stated): for every sample sequence s, rate r and channel count
\* c, decoding the header of convertToWAV(s, r, c) succeeds, finds r and c
\* and derives a duration within one sample period of len(s) / r; one
\* second of mono silence at 16000 Hz gives 44 + 32000 bytes of 1.0 s.
C23_RoundTripRecoversDuration ==
  RoundTrip =>
    LET length == Len(wavInput.samples)
        r == wavInput.sampleRate
    IN /\ wavDuration.kind = "resolve"
       /\ GetUint32(wavFile, 24) = r
       /\ GetUint16(wavFile, 22) = wavInput.channels
       /\ wavDuration.num * r - length * wavDuration.den <= wavDuration.den
       /\ length * wavDuration.den - wavDuration.num * r <= wavDuration.den
       /\ wavInput = OneSecondOfSilence =>
            /\ Len(wavFile) = 44 + 32000
            /\ wavDuration.num = wavDuration.den

\* C23 (amended): for a sequence s that is not empty the decoding succeeds,
\* finds r and c and derives the duration len(s) / (r * c), that of
\* len(s) / c frames, which is len(s) / r for one channel; for the empty
\* sequence it fails, no data being found.
C23_RoundTripRecoversFrameDuration ==
  RoundTrip =>
    LET length == Len(wavInput.samples)
        r == wavInput.sampleRate
        c == wavInput.channels
    IN /\ GetUint32(wavFile, 24) = r
       /\ GetUint16(wavFile, 22) = c
       /\ IF length = 0
          THEN wavDuration = RejectWav("No data chunk found in WAV file")
          ELSE /\ wavDuration.kind = "resolve"
               /\ wavDuration.num * r * c = length * wavDuration.den
       /\ wavInput = OneSecondOfSilence =>
            /\ Len(wavFile) = 44 + 32000
            /\ wavDuration.num = wavDuration.den

C23_Witness ==
  /\ RoundTrip
  /\ wavInput = OneSecondOfSilence
  /\ wavDuration.kind = "resolve"


\* convertToWAV returned.
Converted == wavCall = "convertToWAV"

\* C24: the container that convertToWAV writes is 44 + 2 * len(samples)
\* bytes long; it holds 'RIFF' at 0-3, the total length minus 8 at 4-7,
\* 'WAVE' at 8-11, 'fmt ' at 12-15 with the format tag 1, the channel count
\* and the sample rate given, the byte rate sampleRate * channels * 2, the
\* block align channels * 2 and 16 bits per sample, and 'data' at 36-39
\* with the declared size 2 * len(samples).
C24_HeaderLayout ==
  Converted =>
    LET length == Len(wavInput.samples)
        r == wavInput.sampleRate
        c == wavInput.channels
    IN /\ Len(wavFile) = 44 + 2 * length
       /\ GetTag(wavFile, 0) = <<82, 73, 70, 70>>
       /\ GetUint32(wavFile, 4) = Len(wavFile) - 8
       /\ GetTag(wavFile, 8) = <<87, 65, 86, 69>>
       /\ GetTag(wavFile, 12) = <<102, 109, 116, 32>>
       /\ GetUint16(wavFile, 20) = 1
       /\ GetUint16(wavFile, 22) = c
       /\ GetUint32(wavFile, 24) = r
       /\ GetUint32(wavFile, 28) = r * c * 2
       /\ GetUint16(wavFile, 32) = c * 2
       /\ GetUint16(wavFile, 34) = 16
       /\ GetTag(wavFile, 36) = <<100, 97, 116, 97>>
       /\ GetUint32(wavFile, 40) = 2 * length

\* A container of two channels and three samples was written.
C24_Witness ==
  /\ Converted
  /\ wavInput.channels = 2
  /\ Len(wavInput.samples) = 3
  /\ Len(wavFile) = 50

\* The value stored for sample i (counted from 0) of the call, and a
\* thousand times the exact value clamp(sample, -1, 1) * 32767.
StoredSample(i) == GetInt16(wavFile, 44 + 2 * i)
ExactScaled(i) == ClampSample(wavInput.samples[i + 1]) * 32767
Abs(x) == IF x < 0 THEN -x ELSE x

\* C25 (as stated): each sample is stored as clamp(sample, -1, 1) * 32767
\* rounded to the nearest integer: the stored value lies in [-32767, 32767]
\* and is at most 0.5 away from the exact scaled value.
C25_SamplesRounded ==
  Converted =>
    \A i \in 0..(Len(wavInput.samples) - 1) :
      /\ StoredSample(i) \in -32767..32767
      /\ Abs(1000 * StoredSample(i) - ExactScaled(i)) <= 500

\* C25 (amended): each sample is stored as clamp(sample, -1, 1) * 32767 with
\* its fraction cut off, towards zero: the stored value lies in
\* [-32767, 32767], is never larger in magnitude than the exact scaled
\* value, has its sign, and is less than 1 away from it.
C25_SamplesTruncated ==
  Converted =>
    \A i \in 0..(Len(wavInput.samples) - 1) :
      /\ StoredSample(i) \in -32767..32767
      /\ 1000 * Abs(StoredSample(i)) <= Abs(ExactScaled(i))
      /\ Abs(ExactScaled(i)) < 1000 * (Abs(StoredSample(i)) + 1)
      /\ StoredSample(i) > 0 => ExactScaled(i) > 0
      /\ StoredSample(i) < 0 => ExactScaled(i) < 0

\* A sample of 0.001 was stored as 32 and one of -0.001 as -32, the exact
\* values being 32.767 and -32.767; a sample of 2.0 was stored as 32767.
C25_Witness ==
  /\ Converted
  /\ wavInput.samples = <<1, -1, 2000>>
  /\ StoredSample(0) = 32
  /\ StoredSample(1) = -32
  /\ StoredSample(2) = 32767

\* getWAVDuration settled its promise for a file that was chosen.
Decoded == wavCall = "getWAVDuration" /\ wavInput = NoWavInput
\* Both markers are where they belong.
HasMarkers(file) ==
  /\ Len(file) >= 12
  /\ GetTag(file, 0) = <<82, 73, 70, 70>>
  /\ GetTag(file, 8) = <<87, 65, 86, 69>>
\* The offsets of the data sub-chunks among the sub-chunks that follow the
\* 36 bytes of preamble in the whole file.
DataChunkOffsets(file) ==
  {o \in FindDataChunk(file, 36, {}).visited :
     GetTag(file, o) = <<100, 97, 116, 97>>}

\* C26: getWAVDuration fails when a marker is absent or when the file holds
\* no data sub-chunk; otherwise it finds the data sub-chunk wherever it is
\* among the sub-chunks after the preamble and resolves with
\* data bytes / (sample rate * channels * bits per sample / 8); the scan
\* reads inside the buffer only.
C26_DataChunkFoundWhereverItIs ==
  Decoded =>
    LET rate == GetUint32(wavFile, 24)
        channels == GetUint16(wavFile, 22)
        bits == GetUint16(wavFile, 34)
        view == HeaderSliceOf(wavFile)
    IN /\ \A o \in FindDataChunk(view, 36, {}).visited :
            o >= 36 /\ o + 8 <= Len(view)
       /\ IF ~HasMarkers(wavFile) \/ DataChunkOffsets(wavFile) = {}
          THEN wavDuration.kind = "reject"
          ELSE rate * channels * bits > 0 =>
                 \E o \in DataChunkOffsets(wavFile) :
                   /\ wavDuration.kind = "resolve"
                   /\ wavDuration.num * rate * channels * bits
                        = GetUint32(wavFile, o + 4) * 8 * wavDuration.den

\* One of the two resamplers returned or threw.
Resampled ==
  audioCall \in {"resampleAudio", "AudioFileReader.resampleAudio"}

\* C27: resampling to the same rate is the identity: for every buffer x and
\* rate r both resamplers return x itself, with its samples as they were,
\* and create no buffer.
C27_SameRateReturnsTheInput ==
  (Resampled /\ audioInput.sampleRate = audioInput.targetRate) =>
    /\ audioResult.kind = "return"
    /\ audioResult.buffer = 1
    /\ audioResult.data = SamplesOf(audioInput.channels[1])

\* AudioFileReader.resampleAudio returned a buffer of three samples that it
\* was to bring from 44100 Hz to 44100 Hz.
C27_Witness ==
  /\ audioCall = "AudioFileReader.resampleAudio"
  /\ audioInput.sampleRate = 44100
  /\ audioInput.targetRate = 44100
  /\ audioInput.channels[1] = <<1000, -1000, 0>>
  /\ audioResult.buffer = 1

\* A resampler was called with two positive rates that differ.
ResampledToAnotherRate ==
  /\ Resampled
  /\ audioInput.sampleRate # audioInput.targetRate
  /\ audioInput.targetRate > 0
\* Whether the value <<num, den>> of output sample i (counted from 0) is
\* the linear interpolation of the two source samples that bracket
\* i * ratio, the upper one being the last sample when there is none after
\* the lower one.
IsInterpolationAt(value, i) ==
  LET x == audioInput.channels[1]
      source == audioInput.sampleRate
      target == audioInput.targetRate
      lower == (i * source) \div target
      rem == (i * source) % target
      upper == IF lower + 1 <= Len(x) - 1 THEN lower + 1 ELSE Len(x) - 1
      expected == x[lower + 1] * (target - rem) + x[upper + 1] * rem
  IN \/ value[2] = target /\ value[1] = expected
     \/ value[2] = 1 /\ value[1] * target = expected
\* The samples are interpolated and no index outside the input is read.
InterpolatedInBounds ==
  /\ audioResult.kind = "return"
  /\ audioResult.buffer = 0
  /\ \A k \in 1..Len(audioResult.data) :
       IsInterpolationAt(audioResult.data[k], k - 1)
  /\ audioResult.reads \subseteq 0..(Len(audioInput.channels[1]) - 1)

\* C28 (as stated): when the rates differ the resampler returns exactly
\* round(input_length / ratio) samples, ratio = source_rate / target_rate;
\* output sample i is the linear interpolation of the two source samples
\* bracketing i * ratio, the last sample standing in for an upper bracket
\* outside the input; every index read is in [0, input_length - 1].
C28_RoundedLengthInterpolated ==
  ResampledToAnotherRate =>
    /\ InterpolatedInBounds
    /\ Len(audioResult.data)
         = (2 * Len(audioInput.channels[1]) * audioInput.targetRate
              + audioInput.sampleRate) \div (2 * audioInput.sampleRate)

\* C28 (amended): AudioFileReader.resampleAudio returns
\* round(input_length / ratio) samples and resampleAudio of AudioUtils
\* floor(input_length / ratio) samples; the samples and the indices read are
\* as stated.
C28_LengthInterpolated ==
  ResampledToAnotherRate =>
    /\ InterpolatedInBounds
    /\ Len(audioResult.data)
         = IF audioCall = "resampleAudio"
           THEN (Len(audioInput.channels[1]) * audioInput.targetRate)
                  \div audioInput.sampleRate
           ELSE (2 * Len(audioInput.channels[1]) * audioInput.targetRate
                   + audioInput.sampleRate) \div (2 * audioInput.sampleRate)

\* resampleAudio of AudioUtils brought <<1.0, -1.0>> from 8000 Hz to
\* 16000 Hz: four samples, the second half way between the two, the fourth
\* the last source sample; AudioFileReader.resampleAudio likewise.
C28_Witness ==
  /\ Resampled
  /\ audioInput.channels[1] = <<1000, -1000>>
  /\ audioInput.sampleRate = 8000
  /\ audioInput.targetRate = 16000
  /\ Len(audioResult.data) = 4
  /\ audioResult.data[2][1] = 0
  /\ audioResult.data[4][1] = -1000 * audioResult.data[4][2]
  /\ audioResult.reads = {0, 1}

\* C29: a resampler rejects a target rate that is not positive with an
\* error, so that no sample buffer is returned for it, and has no other
\* error condition.
C29_NonPositiveTargetRateRejected ==
  Resampled =>
    IF audioInput.targetRate <= 0
    THEN audioResult.kind = "throw"
    ELSE audioResult.kind = "return"

\* A buffer was reduced to mono, without a change of its rate.
ReducedToMono ==
  \/ audioCall = "audioBufferToMono"
  \/ audioCall = "extractAudioData" /\ audioInput.sampleRate = 16000
RECURSIVE SumOfChannels(_, _, _)
\* The sum of sample i of the first c channels.
SumOfChannels(channels, c, i) ==
  IF c = 0 THEN 0 ELSE channels[c][i] + SumOfChannels(channels, c - 1, i)

\* C30: the mono reduction of a buffer of C >= 2 channels returns a new
\* buffer of the same length whose sample i is the average of the samples i
\* of all C channels; a buffer of one channel is returned as it is.
C30_AverageOfAllChannels ==
  ReducedToMono =>
    LET channels == audioInput.channels
        C == Len(channels)
    IN /\ audioResult.kind = "return"
       /\ Len(audioResult.data) = Len(channels[1])
       /\ IF C = 1
          THEN /\ audioResult.buffer = 1
               /\ audioResult.data = SamplesOf(channels[1])
          ELSE /\ audioResult.buffer = 0
               /\ \A i \in 1..Len(channels[1]) :
                    audioResult.data[i][1] * C
                      = SumOfChannels(channels, C, i) * audioResult.data[i][2]

\* C31: configureRealtimeProcessing called while real-time processing is
\* active changes nothing: chunkSize, overlapSize and bufferSize keep their
\* values, and the rolling buffer and the chunk counter are untouched.
C31_ConfigureWhileActiveChangesNothing ==
  [][(isRealtimeProcessing
        /\ \E cfg \in Configs : ConfigureRealtimeProcessing(cfg))
       => UNCHANGED <<chunkSize, overlapSize, bufferSize, audioBuffer,
                      chunkCounter, isRealtimeProcessing>>]_vars

\* configureRealtimeProcessing returned while processing was active and
\* samples were in the window: no other operation leaves that state.
C31_Witness ==
  /\ isRealtimeProcessing
  /\ ~looping
  /\ audioBuffer # <<>>
  /\ chunkCounter > 0
  /\ lastOp = "other"

\* The samples that the chunks emitted in the current stream removed from
\* the window: a step for each.
RemovedByChunks == StepSize(chunkSize, overlapSize) * Len(emitted)

C33_StopResolvesNotRecording ==
  \A k \in 1..Len(stopPromises) :
    /\ stopPromises[k].status = "resolved" =>
         /\ ~stopPromises[k].isRecording
         /\ ~stopPromises[k].recordingStartTime
    /\ stopPromises[k].status = "rejected" =>
         /\ stopPromises[k].message = "No recording in progress"
         /\ ~stopPromises[k].isRecording

\* C34: the ids of the chunks are strictly increasing in emission order, the
\* final flush chunk included: over any sequence of start, push and stop,
\* each chunk carries the id of the chunk emitted before it plus one.
C34_IdsIncreaseByOneAlways ==
  idHistory.prev # Undefined => idHistory.last = idHistory.prev + 1

\* C34 as the code has it: the first chunk ever, and the first chunk after
\* initRealtimeProcessing, startRealtimeProcessing or cleanup set
\* chunkCounter to 0, carries id 0; every other chunk, the final flush chunk
\* included, carries the id of the chunk emitted before it plus one.
C34_IdsIncreaseByOneUntilReset ==
  /\ idHistory.last # Undefined =>
       idHistory.last = IF idHistory.prev = Undefined \/ idHistory.resetBetween
                        THEN 0
                        ELSE idHistory.prev + 1
  /\ idHistory.resetSince => chunkCounter = 0
  /\ (~idHistory.resetSince /\ idHistory.last # Undefined) =>
       chunkCounter = idHistory.last + 1

\* A final flush chunk was emitted right after a full chunk of the same run.
C34_Witness ==
  /\ lastOp = "stop"
  /\ emitted # <<>>
  /\ emitted[Len(emitted)].isFinal
  /\ idHistory.last = emitted[Len(emitted)].id
  /\ idHistory.prev # Undefined
  /\ ~idHistory.resetBetween


\* C35: chunk emission always terminates.  No call of processAudioData is
\* left in its loop, whatever configuration configureRealtimeProcessing
\* stored, and every call of splitAudioChunks returns its list of chunks.
C35_ChunkEmissionTerminates ==
  /\ lastOp # "pushing"
  /\ ~looping
  /\ audioCall = "splitAudioChunks" => audioResult.kind = "return"


\* A call of loadWhisperModel is waiting for the answer to its 'init'.
LoadPending ==
  \E r \in 1..Len(requests) : requests[r].type = "init" /\ calls[r] = <<>>

\* C36: whenever isReady() is true, getLoadingProgress() returns 100: after
\* a load that succeeded the progress stays 100 until destroy() or the next
\* load, whatever messages of the worker are handled in between.
\* It is stated for the messages the worker posts once the model is loaded:
\* the partial transcriptions of a 'transcribe' request.
C36_ReadyMeansProgress100 ==
  (/\ isModelLoaded
   /\ ~LoadPending
   /\ lastEvent.op = "message"
   /\ lastEvent.msg.type = "progress"
   /\ requests[lastEvent.msg.owner].type = "transcribe")
    => loadingProgress = 100


\* The positions in the outbox of the terminal responses of run h, and of
\* its partial transcriptions.
TerminalResponses(h) ==
  {k \in 1..Len(outbox) :
     outbox[k].from = h /\ outbox[k].type \in {"success", "error"}}
PartialUpdates(h) ==
  {k \in 1..Len(outbox) : outbox[k].from = h /\ outbox[k].type = "progress"}
\* The run h has ended and its one terminal response is an error.
AnsweredWithError(h) ==
  /\ handlers[h].pc = "done"
  /\ \A k \in TerminalResponses(h) : outbox[k].type = "error"

\* C37: for every request the worker posts exactly one terminal response,
\* a success or an error with the id of the request: none while the run
\* awaits the pipeline or the model, one once it has ended.  A request of
\* unknown type, a transcribe request with empty audio and a transcribe
\* request received while the model is not initialized are answered with an
\* error, also while other requests are in progress.
C37_OneTerminalResponsePerRequest ==
  /\ [](\A h \in 1..Len(handlers) :
          /\ Cardinality(TerminalResponses(h)) =
               IF handlers[h].pc = "done" THEN 1 ELSE 0
          /\ \A k \in TerminalResponses(h) :
               outbox[k].id = handlers[h].request.id
          /\ handlers[h].request.type = "unknown" => AnsweredWithError(h)
          /\ (handlers[h].request.type = "transcribe"
              /\ handlers[h].request.audioLength = 0) => AnsweredWithError(h))
  /\ [][\A request \in Requests :
          (/\ OnMessage(request)
           /\ request.type = "transcribe"
           /\ ~whisper.isInitialized \/ ~whisper.model)
            => /\ handlers'[Len(handlers')].pc = "done"
               /\ outbox' = Append(outbox,
                              ErrorResponse(Len(handlers'), request.id,
                                "Model not initialized. Call initializeModel() first."))]_vars

\* After the model was loaded, two transcriptions ran at
\* the same time and the one that was received last was answered first.
C37_Witness ==
  /\ Len(handlers) >= 3
  /\ handlers[2].request.type = "transcribe"
  /\ handlers[3].request.type = "transcribe"
  /\ handlers[2].pc = "done"
  /\ handlers[3].pc = "done"
  /\ \E j \in TerminalResponses(3), k \in TerminalResponses(2) :
       j < k /\ outbox[j].type = "success" /\ outbox[k].type = "success"

\* C38: every partial transcription of a request is posted before the
\* terminal response of the request and none after it, and a token event of
\* one request leaves the accumulator of every other request as it is.
C38_UpdatesBeforeResponseAndIsolated ==
  /\ [](\A h \in 1..Len(handlers) :
          \A k \in PartialUpdates(h), j \in TerminalResponses(h) : k < j)
  /\ [][\A h \in DOMAIN handlers :
          (\E item \in RunTokenItems, decoded \in BOOLEAN :
             TokenEvent(h, item, decoded))
            => \A g \in DOMAIN handlers \ {h} : handlers'[g] = handlers[g]]_vars

\* After the model was loaded, two transcriptions ran at the same time,
\* each posted a partial transcription, the first was answered and the
\* second still runs with its own tokens.
C38_Witness ==
  /\ Len(handlers) >= 3
  /\ handlers[2].pc = "done"
  /\ handlers[3].pc = "running"
  /\ handlers[3].chunks_to_process[1].tokens = <<1>>
  /\ PartialUpdates(2) # {}
  /\ PartialUpdates(3) # {}
  /\ \E k \in PartialUpdates(3), j \in TerminalResponses(2) : k < j


\* C40: a chunk that is not empty and shorter than MinSamples samples is
\* padded with silence to MinSamples samples and transcribed: the array
\* handed to the model has at least MinSamples samples, and once the model
\* is initialized the request is refused only if the model itself fails.
\* Only the empty chunk is refused before the model is called.
C40_ShortChunkPaddedAndTranscribed ==
  \A h \in 1..Len(handlers) :
    (handlers[h].request.type = "transcribe"
     /\ handlers[h].request.audioLength > 0)
      => /\ \A k \in TerminalResponses(h) :
              outbox[k].type = "error" =>
                outbox[k].error \in
                  {"Model not initialized. Call initializeModel() first.",
                   "Transcription failed: model"}
         /\ handlers[h].pc = "running" =>
              handlers[h].audioArray >= MinSamples


\* C39: the repetition suppression is idempotent: removeRepetitiveText
\* applied to a text it returned returns that text, and deduplicateChunks
\* applied to chunks it returned returns those chunks.
C39_SuppressionIdempotent ==
  /\ textCall = "removeRepetitiveText" =>
       RemoveRepetitiveText(textOut) = textOut
  /\ textCall = "deduplicateChunks" =>
       DeduplicateChunks(chunksOut) = chunksOut

\* A text lost a repeated sentence and what was returned is long enough,
\* and has sentences enough, to go through the loop again.
C39_Witness ==
  /\ textCall = "removeRepetitiveText"
  /\ textOut # textIn
  /\ Len(SplitSentences(textIn)) > Len(SplitSentences(textOut))
  /\ Len(textOut) >= 10
  /\ Len(SplitSentences(textOut)) >= 2

====
